---- MODULE Spec2Model ----
(***************************************************************************)
(* A model of the oh-my-opencode dashboard: the dashboard store            *)
(* (createDashboardStore / getSnapshot), the payload builder               *)
(* (buildDashboardPayload), the background task correlator                 *)
(* (deriveBackgroundTasks), the token usage aggregator (deriveTokenUsage,   *)
(* aggregateTokenUsage) and the server's store resolver                    *)
(* (getStoreForSource).                                                    *)
(*                                                                         *)
(* Each subsystem has its own variables and its own specification; the     *)
(* variables of the other subsystems stay at their idle values.            *)
(***************************************************************************)
EXTENDS Integers, Sequences, FiniteSets, TLC

VARIABLES
    \* ---- dashboard store (createDashboardStore) ----
    now,             \* Date.now()
    cached,          \* reference of the cached payload, or Null
    dirty,           \* the dirty flag
    lastComputedAt,  \* time of the last recomputation
    heap,            \* payload objects by reference
    handed,          \* what readers received: reference and content then seen
    reads,           \* number of getSnapshot calls
    builds,          \* number of buildDashboardPayload calls
    fsVersion,       \* version of the artifact tree on disk
    ticks,           \* number of clock advances
    lastCall,        \* what the last getSnapshot call saw and did
    \* ---- server (start.ts, api.ts) and source registry ----
    project,            \* the --project path the server was started with
    registry,           \* sources.json: the entry of each source id, or NoEntry
    stores,             \* the store instances created so far, by reference
    storeBySourceId,    \* Map<sourceId, store>: reference, or Null
    storeByProjectRoot, \* Map<projectRoot, store>: reference, or Null
    clock,              \* Date.now() as the registry sees it
    adds,               \* number of addOrUpdateSource calls
    requests,           \* number of GET /dashboard requests
    response,           \* the last response of GET /dashboard
    \* ---- background task correlator (deriveBackgroundTasks) ----
    fsTree,     \* the artifact tree: session metas, message directories, main messages
    taskNowMs,  \* opts.nowMs
    taskEntries, \* the rows derived, each with the step that linked its session
    rows,       \* what deriveBackgroundTasks returned
    taskPc,     \* "input": not derived yet; "done": rows returned
    \* ---- payload builder (buildDashboardPayload) ----
    payloadIn,  \* what one pass reads: session, plan, artifact tree, message metas
    payload,    \* the payload returned, as a JSON value
    payloadPc,  \* "input": not built yet; "done": payload returned
    \* ---- token usage (deriveTokenUsage) ----
    usageIn,    \* opts: the message files, whether a main session is given, the ids
    usageOut,   \* the TokenUsagePayload returned
    usagePc,    \* "input": not derived yet; "done": usage returned
    \* ---- tool calls route (GET /tool-calls/:sessionId) ----
    tcRequest,  \* the session id of the request and what its message directory is
    tcResponse, \* the response status (0: none yet) and the file system steps taken
    \* ---- source registry file (sources.json), one addOrUpdateSource call per step group ----
    sourcesJson,  \* sources.json: the entry of each source id, or NoEntry
    sourcesTmp,  \* sources.json.tmp: whether there is such a file, and the registry in it
    regProcs,  \* each process: where it is in addOrUpdateSource, its call, the registry it holds meanwhile
    regClock,  \* Date.now() at the last call
    regLog, \* the calls made, whether two overlapped, the last call returned, the ids returned
    \* ---- waiting ding (computeWaitingDing, threaded by maybePlayDings) ----
    dingState,  \* prevWaitingRef and lastLeftWaitingAtRef
    dingTrace, \* the observations so far: waiting, Date.now(), and whether the ding played
    \* ---- time series of the UI (normalizeTimeSeries) ----
    tsInput,  \* the timeSeries field of the fetched payload
    uiTimeSeries,  \* the normalised time series
    tsPc, \* input or done
    \* ---- polling loops of the UI (the effect that runs tick) ----
    pollLoops,  \* per run of the effect: its alive flag, where its tick is, the fetches it issued
    pollTimers,  \* timerRef.current, the timers pending, the delay of the last one
    pollUi, \* mounted, the current run of the effect, the runs so far, connected, hadSuccessRef
    \* ---- tool calls of the UI (fetchToolCalls and its callers) ----
    uiToolCalls,  \* toolCallsBySession, toolCallsBySessionRef and toolCallsSeqRef
    uiRequests  \* the /api/tool-calls requests in flight

storeVars == <<now, cached, dirty, lastComputedAt, heap, handed, reads, builds,
               fsVersion, ticks, lastCall>>

serverVars == <<project, registry, stores, storeBySourceId, storeByProjectRoot,
                clock, adds, requests, response>>

taskVars == <<fsTree, taskNowMs, taskEntries, rows, taskPc>>

payloadVars == <<payloadIn, payload, payloadPc>>

usageVars == <<usageIn, usageOut, usagePc>>

toolCallsVars == <<tcRequest, tcResponse>>

registryVars == <<sourcesJson, sourcesTmp, regProcs, regClock, regLog>>

dingVars == <<dingState, dingTrace>>

timeSeriesVars == <<tsInput, uiTimeSeries, tsPc>>

pollingVars == <<pollLoops, pollTimers, pollUi>>

fetchVars == <<uiToolCalls, uiRequests>>

vars == <<storeVars, serverVars, taskVars, payloadVars, usageVars, toolCallsVars,
         registryVars, dingVars, timeSeriesVars, pollingVars, fetchVars>>

\* What each subsystem's actions leave alone.
notStore == <<serverVars, taskVars, payloadVars, usageVars, toolCallsVars, registryVars,
              dingVars, timeSeriesVars, pollingVars, fetchVars>>
notServer == <<storeVars, taskVars, payloadVars, usageVars, toolCallsVars, registryVars,
               dingVars, timeSeriesVars, pollingVars, fetchVars>>
notTasks == <<storeVars, serverVars, payloadVars, usageVars, toolCallsVars, registryVars,
              dingVars, timeSeriesVars, pollingVars, fetchVars>>
notPayload == <<storeVars, serverVars, taskVars, usageVars, toolCallsVars, registryVars,
                dingVars, timeSeriesVars, pollingVars, fetchVars>>
notUsage == <<storeVars, serverVars, taskVars, payloadVars, toolCallsVars, registryVars,
              dingVars, timeSeriesVars, pollingVars, fetchVars>>
notToolCalls == <<storeVars, serverVars, taskVars, payloadVars, usageVars, registryVars,
                  dingVars, timeSeriesVars, pollingVars, fetchVars>>
notRegistry == <<storeVars, serverVars, taskVars, payloadVars, usageVars, toolCallsVars,
                 dingVars, timeSeriesVars, pollingVars, fetchVars>>
notDing == <<storeVars, serverVars, taskVars, payloadVars, usageVars, toolCallsVars,
             registryVars, timeSeriesVars, pollingVars, fetchVars>>
notTimeSeries == <<storeVars, serverVars, taskVars, payloadVars, usageVars,
                   toolCallsVars, registryVars, dingVars, pollingVars, fetchVars>>
notPolling == <<storeVars, serverVars, taskVars, payloadVars, usageVars, toolCallsVars,
                registryVars, dingVars, timeSeriesVars, fetchVars>>
notFetch == <<storeVars, serverVars, taskVars, payloadVars, usageVars, toolCallsVars,
              registryVars, dingVars, timeSeriesVars, pollingVars>>

\* null: no object, no session (references and ids start at 1).
Null == 0

-----------------------------------------------------------------------------
(***************************************************************************)
(* Background task correlator (deriveBackgroundTasks)                      *)
(*                                                                         *)
(* A string is a sequence of tokens, so that trimming, clamping and        *)
(* concatenation are computed.  A session or message id is the rank of the *)
(* id string under localeCompare.                                          *)
(***************************************************************************)

DESCRIPTION_MAX == 120
AGENT_MAX == 30
WindowMs == 60000
StaleMs == 15000
MaxRows == 50

\* A value that is not a string (undefined, a number, ...), the null of a
\* string-valued field, and the null of a number-valued field (the numbers of
\* the model are never negative).
NotAString == <<"<not a string>">>
NullStr == <<"<null>">>
NullNum == -1

RECURSIVE TrimStart(_)
TrimStart(str) ==
    IF str /= <<>> /\ Head(str) = " " THEN TrimStart(Tail(str)) ELSE str

RECURSIVE TrimEnd(_)
TrimEnd(str) ==
    IF str /= <<>> /\ str[Len(str)] = " " THEN TrimEnd(SubSeq(str, 1, Len(str) - 1)) ELSE str

Trim(str) == TrimEnd(TrimStart(str))

\* clampString: null unless a string that is not blank; trimmed, cut to maxLen.
clampString(value, maxLen) ==
    IF value = NotAString THEN NullStr
    ELSE LET t == Trim(value)
         IN  IF t = <<>> THEN NullStr
             ELSE IF Len(t) <= maxLen THEN t ELSE SubSeq(t, 1, maxLen)

\* JS Array.prototype.sort, which is stable: each element goes before the first
\* element it compares less than.
InsertSorted(x, sorted, Before(_, _)) ==
    LET firstAfter == {i \in 1..Len(sorted) : Before(x, sorted[i])}
        pos == IF firstAfter = {} THEN Len(sorted) + 1
               ELSE CHOOSE i \in firstAfter : \A j \in firstAfter : i <= j
    IN  SubSeq(sorted, 1, pos - 1) \o <<x>> \o SubSeq(sorted, pos, Len(sorted))

StableSort(seq, Before(_, _)) ==
    LET upTo[k \in 0..Len(seq)] ==
            IF k = 0 THEN <<>> ELSE InsertSorted(seq[k], upTo[k - 1], Before)
    IN  upTo[Len(seq)]

\* a.time?.created ?? 0
CreatedOrZero(m) == IF m.created = NullNum THEN 0 ELSE m.created

\* The comparator of findBackgroundSessionId's sort: created descending, then id
\* ascending.  (backgroundBeforeIdDesc: with the id descending.)
backgroundBeforeIdDesc(a, b) ==
    IF CreatedOrZero(a) /= CreatedOrZero(b) THEN CreatedOrZero(b) - CreatedOrZero(a) < 0
    ELSE a.id > b.id
backgroundBefore(a, b) ==
    IF CreatedOrZero(a) /= CreatedOrZero(b) THEN CreatedOrZero(b) - CreatedOrZero(a) < 0
    ELSE a.id < b.id

\* The comparator of findTaskSessionId's sort.  (taskBeforeNoTie: without the id.)
taskBeforeNoTie(a, b) == CreatedOrZero(b) - CreatedOrZero(a) < 0
taskBefore(a, b) ==
    IF CreatedOrZero(a) /= CreatedOrZero(b) THEN CreatedOrZero(b) - CreatedOrZero(a) < 0
    ELSE a.id < b.id

\* The filter of both searches: parent, exact title, created inside the window
\* (a missing created compares false).  (InWindowNoEnd: without the window's end.)
InWindowNoEnd(m, startedAt) == m.created /= NullNum /\ m.created >= startedAt
InWindow(m, startedAt) ==
    /\ m.created /= NullNum
    /\ m.created >= startedAt
    /\ m.created <= startedAt + WindowMs

findBackgroundSessionId(allSessionMetas, parentSessionId, description, startedAt) ==
    LET title == <<"Background: ">> \o description
        Keep(m) == m.parentID = parentSessionId /\ m.title = title /\ InWindow(m, startedAt)
        candidates == StableSort(SelectSeq(allSessionMetas, Keep), backgroundBefore)
    IN  IF candidates = <<>> THEN Null ELSE candidates[1].id

findTaskSessionId(allSessionMetas, parentSessionId, description, startedAt) ==
    LET title == <<"Task: ">> \o description
        Keep(m) == m.parentID = parentSessionId /\ m.title = title /\ InWindow(m, startedAt)
        candidates == StableSort(SelectSeq(allSessionMetas, Keep), taskBefore)
    IN  IF candidates = <<>> THEN Null ELSE candidates[1].id

\* readRecentMessageMetas: the message files of a directory, newest mtime first,
\* at most maxMessages of them.  The tree lists a directory's messages in that order.
MaxRecentMessages == 200

readRecentMessageMetas(listed, maxMessages) ==
    IF Len(listed) <= maxMessages THEN listed ELSE SubSeq(listed, 1, maxMessages)

\* The messages of a session's message directory ([] when it is missing or empty).
readBackgroundMetas(tree, sessionId) ==
    IF tree.dirOf[sessionId] = "nonempty"
       THEN readRecentMessageMetas(tree.msgsOf[sessionId], MaxRecentMessages)
       ELSE <<>>

statsBefore(a, b) ==
    IF CreatedOrZero(a) /= CreatedOrZero(b) THEN CreatedOrZero(a) - CreatedOrZero(b) < 0
    ELSE a.id < b.id

\* deriveBackgroundSessionStats: replay the messages oldest first.
deriveBackgroundSessionStats(metas) ==
    LET ordered == StableSort(metas, statsBefore)
        step[k \in 0..Len(ordered)] ==
            IF k = 0 THEN [toolCalls |-> 0, lastTool |-> NullStr, lastUpdateAt |-> NullNum]
            ELSE LET meta == ordered[k]
                     prev == step[k - 1]
                 IN  [toolCalls |-> prev.toolCalls + Len(meta.tools),
                      lastTool |-> IF meta.tools = <<>> THEN prev.lastTool
                                   ELSE meta.tools[Len(meta.tools)],
                      lastUpdateAt |-> IF meta.created /= NullNum THEN meta.created
                                       ELSE prev.lastUpdateAt]
    IN  step[Len(ordered)]

\* pickLatestModelString: the model of the most recently created message that
\* names one, or null.
pickLatestModelString(metas) ==
    LET named == {k \in 1..Len(metas) : metas[k].model /= NullStr}
    IN  IF named = {} THEN NullStr
        ELSE LET k == CHOOSE i \in named : \A j \in named :
                          \/ CreatedOrZero(metas[i]) > CreatedOrZero(metas[j])
                          \/ CreatedOrZero(metas[i]) = CreatedOrZero(metas[j]) /\ i <= j
             IN  metas[k].model

\* formatIsoNoMs: the ISO time with the milliseconds cut off, here the whole
\* seconds since the epoch.
formatIsoNoMs(ts) == ts \div 1000

Max(a, b) == IF a >= b THEN a ELSE b

\* formatElapsed: the two coarsest units; minor = 0 stands for the omitted unit.
formatElapsed(ms) ==
    LET totalSeconds == Max(0, ms \div 1000)
        seconds == totalSeconds % 60
        totalMinutes == totalSeconds \div 60
        minutes == totalMinutes % 60
        totalHours == totalMinutes \div 60
        hours == totalHours % 24
        days == totalHours \div 24
    IN  IF days > 0 THEN [unit |-> "d", major |-> days, minor |-> hours]
        ELSE IF totalHours > 0 THEN [unit |-> "h", major |-> totalHours, minor |-> minutes]
        ELSE IF totalMinutes > 0 THEN [unit |-> "m", major |-> totalMinutes, minor |-> seconds]
        ELSE [unit |-> "s", major |-> seconds, minor |-> 0]

\* The empty timeline string.
EmptyTimeline == [start |-> NullNum, elapsed |-> [unit |-> "", major |-> 0, minor |-> 0]]

formatTimeline(startAt, endAtMs) ==
    IF startAt = NullNum THEN EmptyTimeline
    ELSE [start |-> formatIsoNoMs(startAt), elapsed |-> formatElapsed(endAtMs - startAt)]

mainSessionId == "ses_main"

\* The session a delegation is linked to, and the step that found it.  A resume
\* id whose message path exists and cannot be listed (a file, or a directory that
\* cannot be read) makes readdirSync throw, outside any try: via is "throws".
\* (linkSessionSearchFirst: the Background title search tried before the resume id.)
linkSessionSearchFirst(tree, input, description, startedAt) ==
    LET bg == findBackgroundSessionId(tree.sessions, mainSessionId, description, startedAt)
    IN  IF bg /= Null THEN [sessionId |-> bg, via |-> "background"]
        ELSE IF input.run_in_background = "true" THEN [sessionId |-> Null, via |-> "none"]
        ELSE IF input.resume /= Null /\ tree.dirOf[input.resume] = "notdir"
           THEN [sessionId |-> Null, via |-> "throws"]
        ELSE IF input.resume /= Null /\ tree.dirOf[input.resume] = "nonempty"
           THEN [sessionId |-> input.resume, via |-> "resume"]
        ELSE LET task == findTaskSessionId(tree.sessions, mainSessionId, description, startedAt)
             IN  [sessionId |-> task, via |-> IF task /= Null THEN "task" ELSE "none"]
linkSession(tree, input, description, startedAt) ==
    IF input.run_in_background = "true"
       THEN LET bg == findBackgroundSessionId(tree.sessions, mainSessionId, description, startedAt)
            IN  [sessionId |-> bg, via |-> IF bg /= Null THEN "background" ELSE "none"]
    ELSE IF input.resume /= Null /\ tree.dirOf[input.resume] = "notdir"
       THEN [sessionId |-> Null, via |-> "throws"]
    ELSE IF input.resume /= Null /\ tree.dirOf[input.resume] = "nonempty"
       THEN [sessionId |-> input.resume, via |-> "resume"]
    ELSE LET bg == findBackgroundSessionId(tree.sessions, mainSessionId, description, startedAt)
         IN  IF bg /= Null THEN [sessionId |-> bg, via |-> "background"]
             ELSE LET task == findTaskSessionId(tree.sessions, mainSessionId, description, startedAt)
                  IN  [sessionId |-> task, via |-> IF task /= Null THEN "task" ELSE "none"]

\* The description a row is derived from.  (descriptionOrPrompt: falling back to
\* the prompt.)
descriptionOrPrompt(input) ==
    IF clampString(input.description, DESCRIPTION_MAX) /= NullStr
       THEN clampString(input.description, DESCRIPTION_MAX)
       ELSE clampString(input.prompt, DESCRIPTION_MAX)
descriptionOf(input) == clampString(input.description, DESCRIPTION_MAX)

\* readBackgroundStats and readBackgroundModel of a linked session.
readBackgroundStats(tree, sessionId) ==
    deriveBackgroundSessionStats(readBackgroundMetas(tree, sessionId))

readBackgroundModel(tree, sessionId) ==
    pickLatestModelString(readBackgroundMetas(tree, sessionId))

\* subagentType ?? (category ? `sisyphus-junior (${category})` : "unknown")
agentOf(subagentType, category) ==
    IF subagentType /= NullStr THEN subagentType
    ELSE IF category /= NullStr THEN <<"sisyphus-junior (">> \o category \o <<")">>
    ELSE <<"unknown">>

\* The status of a row: queued without a session, running while the session's
\* last update is at most StaleMs old, completed with tool calls, else unknown.
\* (statusOfStrict: the age compared with <.  statusOfActivityFirst: the activity
\* looked at before the link.)
statusOfActivityFirst(backgroundSessionId, stats, nowMs) ==
    IF stats.lastUpdateAt /= NullNum /\ stats.lastUpdateAt /= 0
       /\ nowMs - stats.lastUpdateAt <= StaleMs THEN "running"
    ELSE IF backgroundSessionId = Null THEN "queued"
    ELSE IF stats.toolCalls > 0 THEN "completed"
    ELSE "unknown"
statusOfStrict(backgroundSessionId, stats, nowMs) ==
    IF backgroundSessionId = Null THEN "queued"
    ELSE IF stats.lastUpdateAt /= NullNum /\ stats.lastUpdateAt /= 0
            /\ nowMs - stats.lastUpdateAt < StaleMs THEN "running"
    ELSE IF stats.toolCalls > 0 THEN "completed"
    ELSE "unknown"
statusOf(backgroundSessionId, stats, nowMs) ==
    IF backgroundSessionId = Null THEN "queued"
    ELSE IF stats.lastUpdateAt /= NullNum /\ stats.lastUpdateAt /= 0
            /\ nowMs - stats.lastUpdateAt <= StaleMs THEN "running"
    ELSE IF stats.toolCalls > 0 THEN "completed"
    ELSE "unknown"

\* status === "completed" ? (stats.lastUpdateAt ?? nowMs) : nowMs
\* (timelineEndNow: now, whatever the status.)
timelineEndNow(status, stats, nowMs) == nowMs
timelineEndMs(status, stats, nowMs) ==
    IF status = "completed"
       THEN (IF stats.lastUpdateAt /= NullNum THEN stats.lastUpdateAt ELSE nowMs)
       ELSE nowMs

\* The timeline of a row: "" when the status is unknown.  (timelineAlways: the
\* timeline formatted whatever the status.)
timelineAlways(status, stats, startedAt, nowMs) ==
    formatTimeline(startedAt, timelineEndMs(status, stats, nowMs))
timelineOf(status, stats, startedAt, nowMs) ==
    IF status = "unknown" THEN EmptyTimeline
    ELSE formatTimeline(startedAt, timelineEndMs(status, stats, nowMs))

\* rows.push: the row, with the step that linked its session.
pushRow(part, description, agent, link, stats, lastModel, status, startedAt, nowMs) ==
    <<[row |-> [id |-> part.callID,
                description |-> description,
                agent |-> agent,
                status |-> status,
                toolCalls |-> IF link.sessionId /= Null THEN stats.toolCalls ELSE NullNum,
                lastTool |-> stats.lastTool,
                lastModel |-> lastModel,
                timeline |-> timelineOf(status, stats, startedAt, nowMs),
                sessionId |-> link.sessionId],
       via |-> link.via,
       startedAt |-> startedAt]>>

rowOfStats(part, description, agent, link, stats, lastModel, startedAt, nowMs) ==
    pushRow(part, description, agent, link, stats, lastModel,
            statusOf(link.sessionId, stats, nowMs), startedAt, nowMs)

rowOfLink(tree, part, description, agent, link, startedAt, nowMs) ==
    rowOfStats(part, description, agent, link,
               IF link.sessionId /= Null THEN readBackgroundStats(tree, link.sessionId)
               ELSE [toolCalls |-> 0, lastTool |-> NullStr, lastUpdateAt |-> startedAt],
               IF link.sessionId /= Null THEN readBackgroundModel(tree, link.sessionId)
               ELSE NullStr,
               startedAt, nowMs)

rowOfDescription(tree, part, description, startedAt, nowMs) ==
    IF description = NullStr THEN <<>>
    ELSE rowOfLink(tree, part, description,
                   agentOf(clampString(part.input.subagent_type, AGENT_MAX),
                           clampString(part.input.category, AGENT_MAX)),
                   linkSession(tree, part.input, description, startedAt),
                   startedAt, nowMs)

\* The body of the loop over a message's parts: no row, or the row with the step
\* that linked it.
rowOfPart(tree, part, startedAt, nowMs) ==
    IF part.tool /= "delegate_task" THEN <<>>
    ELSE IF part.input.run_in_background \notin {"true", "false"} THEN <<>>
    ELSE rowOfDescription(tree, part, descriptionOf(part.input), startedAt, nowMs)

mainBefore(a, b) == CreatedOrZero(b) - CreatedOrZero(a) < 0

\* deriveBackgroundTasks: the main session's messages newest first; the rows of
\* each message's parts; stop after a message that brings the rows to MaxRows.
deriveEntries(tree, nowMs) ==
    LET metas == readRecentMessageMetas(tree.main, MaxRecentMessages)
        ordered == StableSort(metas, mainBefore)
        ofParts(meta) ==
            LET parts == meta.parts
                acc[k \in 0..Len(parts)] ==
                    IF k = 0 THEN <<>>
                    ELSE acc[k - 1] \o rowOfPart(tree, parts[k], meta.created, nowMs)
            IN  acc[Len(parts)]
        loop[k \in 0..Len(ordered)] ==
            IF k = 0 THEN <<>>
            ELSE IF Len(loop[k - 1]) >= MaxRows THEN loop[k - 1]
            ELSE IF ordered[k].created = NullNum THEN loop[k - 1]
            ELSE loop[k - 1] \o ofParts(ordered[k])
    IN  loop[Len(ordered)]

deriveBackgroundTasks(tree, nowMs) ==
    LET entries == deriveEntries(tree, nowMs)
    IN  [k \in 1..Len(entries) |-> entries[k].row]

\* The call throws instead of returning: a part it went through threw.
deriveBackgroundTasksThrows(tree, nowMs) ==
    \E k \in 1..Len(deriveEntries(tree, nowMs)) :
        deriveEntries(tree, nowMs)[k].via = "throws"

\* ---- the artifact trees explored ----

\* Bounds of the correlator model.
MaxSessions == 2
StartedAt == 1000
NowMs == 100000

SessionIdSet == 1..MaxSessions

Desc == <<"d">>
BackgroundTitle == <<"Background: ">> \o Desc
TaskTitle == <<"Task: ">> \o Desc

\* The session metas a session file of a given id may hold: a wrong parent, a
\* wrong title, no time.created, or a matching parent and title with a created
\* time around both ends of the window.
SessionVariants(id) ==
    {[id |-> id, parentID |-> "ses_other", title |-> BackgroundTitle, created |-> StartedAt],
     [id |-> id, parentID |-> mainSessionId, title |-> <<"Other">>, created |-> StartedAt],
     [id |-> id, parentID |-> mainSessionId, title |-> BackgroundTitle, created |-> NullNum]}
    \cup {[id |-> id, parentID |-> mainSessionId, title |-> BackgroundTitle, created |-> c] :
            c \in {StartedAt - 1, StartedAt, StartedAt + WindowMs, StartedAt + WindowMs + 1}}
    \cup {[id |-> id, parentID |-> mainSessionId, title |-> TaskTitle, created |-> c] :
            c \in {StartedAt, StartedAt + WindowMs + 1}}

AllSessionVariants == UNION {SessionVariants(id) : id \in SessionIdSet}

\* readAllSessionMetas: the session files in the order the directory lists them,
\* no id twice.
SessionListings ==
    UNION {{l \in [1..n -> AllSessionVariants] :
               \A i, j \in 1..n : l[i].id = l[j].id => i = j} : n \in 0..MaxSessions}

\* What a token field of a message file may hold: a finite number, NaN, an
\* infinity, or a value that is not a number (a string, null, nothing).
Num(n) == [type |-> "number", finite |-> TRUE, n |-> n]
NaN == [type |-> "number", finite |-> FALSE, n |-> 0]
Infinity == [type |-> "number", finite |-> FALSE, n |-> 1]
NotANumber == [type |-> "other", finite |-> FALSE, n |-> 0]

\* meta.tokens: input, output, reasoning, cache.read, cache.write, and a total of
\* the producer's.
TokensOf(i, o, r, cr, cw, t) ==
    [input |-> i, output |-> o, reasoning |-> r, cacheRead |-> cr, cacheWrite |-> cw,
     total |-> t]

\* The token counters of a message file.
Tokens(i, o) == TokensOf(Num(i), Num(o), Num(0), Num(0), Num(0), NotANumber)

\* A child session's messages: one assistant message with one grep call.
ChildMessages == <<[id |-> 2, created |-> StartedAt + 500, tools |-> << <<"grep">> >>,
                    model |-> <<"anthropic/claude">>, role |-> "assistant",
                    tokens |-> Tokens(5, 3)]>>

Secret == <<"SECRET">>

DelegatePart(rib, description, subagentType, category, resume) ==
    [callID |-> 1, tool |-> "delegate_task",
     input |-> [run_in_background |-> rib, description |-> description,
                subagent_type |-> subagentType, category |-> category,
                resume |-> resume, prompt |-> Secret],
     output |-> Secret, error |-> Secret]

MainMessage(part) == <<[id |-> 1, created |-> StartedAt, parts |-> <<part>>,
                        model |-> <<"openai/gpt">>, role |-> "assistant",
                        tokens |-> Tokens(4, 2)]>>

\* Trees that vary the sessions to correlate with: the listing, the mode, the
\* resume id and the state of the resumed session's message directory.
CorrelationTrees ==
    {[sessions |-> l,
      dirOf |-> [i \in SessionIdSet |-> IF i = 1 THEN c.dir ELSE "nonempty"],
      msgsOf |-> [i \in SessionIdSet |-> ChildMessages],
      main |-> MainMessage(DelegatePart(c.rib, <<" ", "d", " ">>, <<"explore">>, NotAString, c.resume))] :
        l \in SessionListings,
        c \in {[rib |-> b, resume |-> Null, dir |-> "nonempty"] : b \in {"true", "false"}}
              \cup {[rib |-> "false", resume |-> 1, dir |-> d] :
                      d \in {"missing", "empty", "nonempty", "notdir"}}}

LongString == [i \in 1..(DESCRIPTION_MAX + 1) |-> "x"]

\* Trees that vary what the delegate_task part holds.
InputTrees ==
    {[sessions |-> <<[id |-> 1, parentID |-> mainSessionId, title |-> BackgroundTitle,
                      created |-> StartedAt + 500]>>,
      dirOf |-> [i \in SessionIdSet |-> "nonempty"],
      msgsOf |-> [i \in SessionIdSet |-> ChildMessages],
      main |-> MainMessage([DelegatePart(rib, d, sub, cat, Null) EXCEPT !.tool = tool])] :
        tool \in {"delegate_task", "bash"},
        rib \in {"true", "false", "absent"},
        d \in {Desc, <<" ", "d", " ">>, <<" ">>, NotAString, LongString},
        sub \in {NotAString, <<"explore">>},
        cat \in {NotAString, <<"quick">>}}

\* A message file of a child session: created at c (or without time.created),
\* with the tool parts named.
ChildMessage(id, c, tools) ==
    [id |-> id, created |-> c, tools |-> tools, model |-> <<"anthropic/claude">>,
     role |-> "assistant", tokens |-> Tokens(5, 3)]

\* The times a child message may be created at: none, the epoch, before and after
\* the delegation, around the staleness limit, in the future.
ActivityTimes ==
    {NullNum, 0, StartedAt - 500, StartedAt + 500, NowMs - StaleMs - 1, NowMs - StaleMs,
     NowMs - 1, NowMs + StaleMs}

\* What the message directory of a linked session may hold: nothing readable, one
\* message without or with a tool call, two messages.
ChildActivity ==
    {<<>>}
    \cup {<<ChildMessage(2, c, t)>> : c \in ActivityTimes, t \in {<<>>, << <<"grep">> >>}}
    \cup {<<ChildMessage(3, NowMs - 1, t), ChildMessage(2, StartedAt + 500, << <<"grep">> >>)>> :
             t \in {<<>>, << <<"read">> >>}}
    \cup {<<ChildMessage(3, NullNum, << <<"read">> >>), ChildMessage(2, StartedAt + 500, <<>>)>>}

\* A main session message created at the given time, with the given parts.
MainMessageAt(created, parts) ==
    <<[id |-> 1, created |-> created, parts |-> parts, model |-> <<"openai/gpt">>,
       role |-> "assistant", tokens |-> Tokens(4, 2)]>>

\* Trees that vary the activity of the child session: a background delegation made
\* before or after now, its session found or not, and the session's messages.
StatusTrees ==
    {[sessions |-> IF found
                      THEN <<[id |-> 1, parentID |-> mainSessionId, title |-> BackgroundTitle,
                              created |-> s + 500]>>
                      ELSE <<>>,
      dirOf |-> [i \in SessionIdSet |-> "nonempty"],
      msgsOf |-> [i \in SessionIdSet |-> msgs],
      main |-> MainMessageAt(s, <<DelegatePart("true", Desc, <<"explore">>, NotAString, Null)>>)] :
        found \in BOOLEAN, s \in {StartedAt, NowMs + 5000}, msgs \in ChildActivity}

\* n delegate_task parts of one message, in file name order, with the call ids
\* from + 1 .. from + n.
DelegateParts(n, from) ==
    [k \in 1..n |-> [DelegatePart("true", Desc, <<"explore">>, NotAString, Null)
                        EXCEPT !.callID = from + k]]

\* The numbers of delegate_task parts a message may carry.
PartCounts == {1, MaxRows - 1, MaxRows + 1}

\* Trees that vary the number of delegations: two main session messages, listed
\* newest or oldest first or created at the same time, each with a few or many
\* delegate_task parts.
ManyPartsTrees ==
    {[sessions |-> <<>>,
      dirOf |-> [i \in SessionIdSet |-> "missing"],
      msgsOf |-> [i \in SessionIdSet |-> <<>>],
      main |-> MainMessageAt(c[1], DelegateParts(n1, 0))
               \o <<[id |-> 4, created |-> c[2], parts |-> DelegateParts(n2, n1),
                      model |-> <<"openai/gpt">>, role |-> "assistant",
                      tokens |-> Tokens(4, 2)]>>] :
        n1 \in PartCounts, n2 \in PartCounts,
        c \in {<<StartedAt, StartedAt + 1000>>, <<StartedAt + 1000, StartedAt>>,
               <<StartedAt, StartedAt>>}}

\* A now less than StaleMs after the epoch.
EarlyNowMs == StaleMs - 5000

EmptyTree == [sessions |-> <<>>, dirOf |-> [i \in SessionIdSet |-> "missing"],
              msgsOf |-> [i \in SessionIdSet |-> <<>>], main |-> <<>>]

IdleTasks ==
    /\ fsTree = EmptyTree
    /\ taskNowMs = NowMs
    /\ taskEntries = <<>>
    /\ rows = <<>>
    /\ taskPc = "input"

TasksGiven ==
    /\ \/ /\ fsTree \in CorrelationTrees \cup InputTrees \cup StatusTrees \cup ManyPartsTrees
          /\ taskNowMs = NowMs
       \/ fsTree \in StatusTrees /\ taskNowMs = EarlyNowMs
    /\ taskEntries = <<>>
    /\ rows = <<>>
    /\ taskPc = "input"

\* One call of deriveBackgroundTasks on the tree: it returns the rows, or throws.
DeriveTasks ==
    /\ taskPc = "input"
    /\ taskEntries' = IF deriveBackgroundTasksThrows(fsTree, taskNowMs) THEN <<>>
                      ELSE deriveEntries(fsTree, taskNowMs)
    /\ rows' = IF deriveBackgroundTasksThrows(fsTree, taskNowMs) THEN <<>>
               ELSE deriveBackgroundTasks(fsTree, taskNowMs)
    /\ taskPc' = IF deriveBackgroundTasksThrows(fsTree, taskNowMs) THEN "threw" ELSE "done"
    /\ UNCHANGED <<fsTree, taskNowMs>>
    /\ UNCHANGED notTasks

NextTasks == DeriveTasks

\* ---- what the claims speak of ----

Range(seq) == {seq[i] : i \in 1..Len(seq)}

\* The delegating message of a row, and its delegate_task part, by the call id.
DelegatingMessage(tree, callID) ==
    CHOOSE m \in Range(tree.main) : \E p \in Range(m.parts) : p.callID = callID

DelegationOf(tree, callID) ==
    CHOOSE p \in Range(DelegatingMessage(tree, callID).parts) : p.callID = callID

\* The sessions that a title search with the given prefix may link: child of the
\* main session, title prefix + description, created in [startedAt, startedAt + 60000].
Matching(tree, prefix, description, startedAt) ==
    {m \in Range(tree.sessions) :
        /\ m.parentID = mainSessionId
        /\ m.title = <<prefix>> \o description
        /\ m.created /= NullNum
        /\ startedAt <= m.created
        /\ m.created <= startedAt + 60000}

\* The candidates of a title search that share the greatest created time.
Latest(candidates) == {m \in candidates : \A o \in candidates : o.created <= m.created}

\* The same tree with prompt, output and error of every tool part replaced.
Scrub(tree, v) ==
    [tree EXCEPT !.main =
        [i \in 1..Len(tree.main) |->
            [tree.main[i] EXCEPT !.parts =
                [j \in 1..Len(tree.main[i].parts) |->
                    [tree.main[i].parts[j] EXCEPT !.input.prompt = v,
                                                  !.output = v, !.error = v]]]]]

OtherValues == {<<"other">>, Desc, NotAString}

\* The same tree with the session files listed in another order.
Relistings(tree) ==
    LET n == Len(tree.sessions)
    IN  {[tree EXCEPT !.sessions = [i \in 1..n |-> tree.sessions[f[i]]]] :
            f \in {g \in [1..n -> 1..n] : \A i, j \in 1..n : g[i] = g[j] => i = j}}

\* C2: the rows depend on a delegate_task part only through the allowlisted input
\* fields: a tree that differs in prompt, state.output and state.error alone gives
\* the same rows.
C2_RowsIgnorePromptOutputError ==
    taskPc = "done" =>
        \A v \in OtherValues : deriveBackgroundTasks(Scrub(fsTree, v), taskNowMs) = rows

\* C2's case: a row was derived from a part that carries a prompt, an output and
\* an error.
C2_Witness ==
    /\ taskPc = "done"
    /\ Len(rows) = 1
    /\ rows[1].sessionId /= Null
    /\ DelegationOf(fsTree, rows[1].id).input.prompt = Secret
    /\ DelegationOf(fsTree, rows[1].id).error = Secret

\* C7: for run_in_background false the linked session is the first success of:
\* the resume id when its message directory is not empty, the Background title
\* search, the Task title search; a later step counts only when every earlier one
\* failed, and the row is unlinked only when all three fail.
C7_SyncLinkOrder ==
    taskPc = "done" =>
        \A k \in 1..Len(taskEntries) :
            LET e == taskEntries[k]
                in == DelegationOf(fsTree, e.row.id).input
                resumeOk == in.resume /= Null /\ fsTree.dirOf[in.resume] = "nonempty"
                bg == Matching(fsTree, "Background: ", e.row.description, e.startedAt)
                tk == Matching(fsTree, "Task: ", e.row.description, e.startedAt)
            IN  in.run_in_background = "false" =>
                    /\ resumeOk => e.via = "resume" /\ e.row.sessionId = in.resume
                    /\ ~resumeOk /\ bg /= {} =>
                           e.via = "background" /\ e.row.sessionId \in {m.id : m \in bg}
                    /\ ~resumeOk /\ bg = {} /\ tk /= {} =>
                           e.via = "task" /\ e.row.sessionId \in {m.id : m \in tk}
                    /\ e.row.sessionId = Null <=> (~resumeOk /\ bg = {} /\ tk = {})

\* C7's case: a synchronous delegation whose resume session has messages while
\* another session matches the Background title search; the resume session is linked.
C7_Witness ==
    /\ taskPc = "done"
    /\ \E k \in 1..Len(taskEntries) :
          LET e == taskEntries[k]
              in == DelegationOf(fsTree, e.row.id).input
              bg == Matching(fsTree, "Background: ", e.row.description, e.startedAt)
          IN  /\ in.run_in_background = "false"
              /\ e.via = "resume"
              /\ \E m \in bg : m.id /= in.resume

\* C8: of several sessions matching parent, title and window, a title search
\* links one with the greatest created time, and among those with that same
\* created time the one whose id sorts first (ascending); for the Background
\* search and for the Task search.
C8_LatestThenSmallestId ==
    taskPc = "done" =>
        \A k \in 1..Len(taskEntries) :
            LET e == taskEntries[k]
                prefix == IF e.via = "background" THEN "Background: " ELSE "Task: "
                latest == Latest(Matching(fsTree, prefix, e.row.description, e.startedAt))
            IN  e.via \in {"background", "task"} =>
                    /\ e.row.sessionId \in {m.id : m \in latest}
                    /\ \A m \in latest : e.row.sessionId <= m.id

\* C8 as stated: among the candidates with the greatest created time the one with
\* the lexicographically greatest id is linked.
C8_LatestThenGreatestId ==
    taskPc = "done" =>
        \A k \in 1..Len(taskEntries) :
            LET e == taskEntries[k]
                prefix == IF e.via = "background" THEN "Background: " ELSE "Task: "
                latest == Latest(Matching(fsTree, prefix, e.row.description, e.startedAt))
            IN  e.via \in {"background", "task"} =>
                    /\ e.row.sessionId \in {m.id : m \in latest}
                    /\ \A m \in latest : e.row.sessionId >= m.id

\* C8's case: a Background title search with two candidates created at the same
\* time.
C8_Witness ==
    /\ taskPc = "done"
    /\ Len(taskEntries) = 1
    /\ taskEntries[1].via = "background"
    /\ LET e == taskEntries[1]
           bg == Matching(fsTree, "Background: ", e.row.description, e.startedAt)
       IN  Cardinality(bg) = 2 /\ Cardinality(Latest(bg)) = 2

\* C9: when several matching candidates have the same created time, the linked
\* session is the same whatever the order the session files are listed in, and it
\* is the candidate whose id sorts first; for the Background and the Task search.
C9_TieIndependentOfListing ==
    taskPc = "done" =>
        \A k \in 1..Len(taskEntries) :
            LET e == taskEntries[k]
                prefix == IF e.via = "background" THEN "Background: " ELSE "Task: "
                latest == Latest(Matching(fsTree, prefix, e.row.description, e.startedAt))
            IN  e.via \in {"background", "task"} /\ Cardinality(latest) > 1 =>
                    /\ \A m \in latest : e.row.sessionId <= m.id
                    /\ \A t \in Relistings(fsTree) :
                           deriveEntries(t, taskNowMs)[k].row.sessionId = e.row.sessionId

\* C9's case: a Task title search with two candidates created at the same time,
\* the session file of the greater id listed first.
C9_Witness ==
    /\ taskPc = "done"
    /\ Len(taskEntries) = 1
    /\ taskEntries[1].via = "task"
    /\ Len(fsTree.sessions) >= 2
    /\ fsTree.sessions[1].id > fsTree.sessions[2].id
    /\ LET e == taskEntries[1]
       IN  Cardinality(Latest(Matching(fsTree, "Task: ", e.row.description, e.startedAt))) = 2

\* C10: a session linked by a title search is a child of the main session, has
\* the title "Background: " + description ("Task: " + description in the
\* synchronous fallback) and was created in [startedAt, startedAt + 60000],
\* startedAt being the created time of the delegating message.
C10_TitleSearchWindow ==
    taskPc = "done" =>
        \A k \in 1..Len(taskEntries) :
            LET e == taskEntries[k]
                startedAt == DelegatingMessage(fsTree, e.row.id).created
                prefix == IF e.via = "background" THEN "Background: " ELSE "Task: "
            IN  e.via \in {"background", "task"} =>
                    \A m \in Range(fsTree.sessions) :
                        m.id = e.row.sessionId =>
                            /\ m.parentID = mainSessionId
                            /\ m.title = <<prefix>> \o e.row.description
                            /\ m.created /= NullNum
                            /\ m.created >= startedAt
                            /\ m.created <= startedAt + 60000

\* C10's case: a session created exactly 60000 ms after the delegating message
\* is linked while a session created one millisecond later is listed too.
C10_Witness ==
    /\ taskPc = "done"
    /\ Len(taskEntries) = 1
    /\ taskEntries[1].via = "background"
    /\ \E m, o \in Range(fsTree.sessions) :
          /\ m.id = taskEntries[1].row.sessionId
          /\ m.created = taskEntries[1].startedAt + 60000
          /\ o.title = m.title
          /\ o.parentID = mainSessionId
          /\ o.created = taskEntries[1].startedAt + 60001

\* The last activity of a session: the greatest time.created of the messages read
\* from its message directory, NullNum when none has one; and its tool calls.
LastActivity(tree, sessionId) ==
    LET times == {m.created : m \in Range(readBackgroundMetas(tree, sessionId))} \ {NullNum}
    IN  IF times = {} THEN NullNum ELSE CHOOSE t \in times : \A u \in times : u <= t

RECURSIVE CountTools(_)
CountTools(metas) ==
    IF metas = <<>> THEN 0 ELSE Len(Head(metas).tools) + CountTools(Tail(metas))

ToolCallCount(tree, sessionId) == CountTools(readBackgroundMetas(tree, sessionId))

\* C11: a row is queued when no session is linked; running when a session is
\* linked and its last activity (a time other than 0) is at most 15 seconds before
\* now; otherwise the linked session is stale (its last activity is older, or it
\* has none), and the row is completed when the session has at least one tool
\* call and unknown when it has none.
C11_StatusDerivation ==
    taskPc = "done" =>
        \A k \in 1..Len(rows) :
            LET r == rows[k]
                linked == r.sessionId /= Null
                last == IF linked THEN LastActivity(fsTree, r.sessionId) ELSE NullNum
                calls == IF linked THEN ToolCallCount(fsTree, r.sessionId) ELSE 0
                recent == last /= NullNum /\ last /= 0 /\ taskNowMs - last <= 15000
                stale == ~recent
            IN  /\ ~linked => r.status = "queued"
                /\ linked /\ recent => r.status = "running"
                /\ linked /\ stale /\ calls > 0 => r.status = "completed"
                /\ linked /\ stale /\ calls = 0 => r.status = "unknown"

\* C11 as stated: the same, but unknown when a session is linked, has no tool call
\* and is not stale (its last activity is at most 15 seconds before now).
C11_UnknownWhenNotStale ==
    taskPc = "done" =>
        \A k \in 1..Len(rows) :
            LET r == rows[k]
                linked == r.sessionId /= Null
                last == IF linked THEN LastActivity(fsTree, r.sessionId) ELSE NullNum
                calls == IF linked THEN ToolCallCount(fsTree, r.sessionId) ELSE 0
                recent == last /= NullNum /\ taskNowMs - last <= 15000
                stale == last /= NullNum /\ taskNowMs - last > 15000
            IN  /\ ~linked => r.status = "queued"
                /\ linked /\ recent => r.status = "running"
                /\ linked /\ stale /\ calls > 0 => r.status = "completed"
                /\ linked /\ calls = 0 /\ recent => r.status = "unknown"

\* C11's case: a row linked to a session without tool calls whose last activity
\* is exactly 15 seconds before now.
C11_Witness ==
    /\ taskPc = "done"
    /\ Len(rows) = 1
    /\ rows[1].sessionId /= Null
    /\ ToolCallCount(fsTree, rows[1].sessionId) = 0
    /\ LastActivity(fsTree, rows[1].sessionId) = taskNowMs - 15000
    /\ rows[1].status = "running"

\* C12: a row linked to a session that has no tool call and whose last activity
\* is more than 15 seconds before now has status unknown and the empty timeline;
\* and the timeline of any row is the empty string exactly when its status is
\* unknown.
C12_EmptyTimelineIffUnknown ==
    taskPc = "done" =>
        \A k \in 1..Len(rows) :
            LET r == rows[k]
                linked == r.sessionId /= Null
                last == IF linked THEN LastActivity(fsTree, r.sessionId) ELSE NullNum
                calls == IF linked THEN ToolCallCount(fsTree, r.sessionId) ELSE 0
            IN  /\ linked /\ calls = 0 /\ last /= NullNum /\ taskNowMs - last > 15000 =>
                       r.status = "unknown" /\ r.timeline = EmptyTimeline
                /\ r.timeline = EmptyTimeline <=> r.status = "unknown"

\* C12's case: a row linked to a session without tool calls whose last activity is
\* 15001 ms before now.
C12_Witness ==
    /\ taskPc = "done"
    /\ Len(rows) = 1
    /\ rows[1].sessionId /= Null
    /\ ToolCallCount(fsTree, rows[1].sessionId) = 0
    /\ LastActivity(fsTree, rows[1].sessionId) = taskNowMs - 15001
    /\ rows[1].timeline = EmptyTimeline

\* C13: a row has sessionId null exactly when its status is queued, and such a
\* row has toolCalls null and lastTool null; a run_in_background false delegation
\* without resume and without a session matching either title search gives
\* sessionId null, toolCalls null and status queued.
C13_NullSessionIffQueued ==
    taskPc = "done" =>
        \A k \in 1..Len(taskEntries) :
            LET e == taskEntries[k]
                r == rows[k]
                in == DelegationOf(fsTree, r.id).input
            IN  /\ r.sessionId = Null <=> r.status = "queued"
                /\ r.sessionId = Null => r.toolCalls = NullNum /\ r.lastTool = NullStr
                /\ (/\ in.run_in_background = "false"
                    /\ in.resume = Null
                    /\ Matching(fsTree, "Background: ", r.description, e.startedAt) = {}
                    /\ Matching(fsTree, "Task: ", r.description, e.startedAt) = {})
                   => r.sessionId = Null /\ r.toolCalls = NullNum /\ r.status = "queued"

\* C13's case: a synchronous delegation without resume; child sessions with the
\* right title are listed, but none created inside the window; the row is queued.
C13_Witness ==
    /\ taskPc = "done"
    /\ Len(rows) = 1
    /\ DelegationOf(fsTree, rows[1].id).input.run_in_background = "false"
    /\ DelegationOf(fsTree, rows[1].id).input.resume = Null
    /\ \E m \in Range(fsTree.sessions) : m.title = BackgroundTitle /\ m.parentID = mainSessionId
    /\ rows[1].status = "queued"
    /\ rows[1].toolCalls = NullNum

\* C14: the timeline of a row whose status is not unknown starts at the created
\* time of the delegating message and gives the time elapsed from there to the
\* linked session's last activity when the status is completed (to now when the
\* session has no timed message), and to now when the status is queued or
\* running; the elapsed time is never negative: it is 0s when the end lies before
\* the start.
C14_TimelineStartAndElapsed ==
    taskPc = "done" =>
        \A k \in 1..Len(rows) :
            LET r == rows[k]
                start == DelegatingMessage(fsTree, r.id).created
                last == IF r.sessionId /= Null THEN LastActivity(fsTree, r.sessionId)
                        ELSE NullNum
                end == IF r.status = "completed" /\ last /= NullNum THEN last ELSE taskNowMs
            IN  r.status /= "unknown" =>
                    /\ r.timeline.start = start \div 1000
                    /\ r.timeline.elapsed = formatElapsed(end - start)
                    /\ r.timeline.elapsed.major >= 0
                    /\ r.timeline.elapsed.minor >= 0
                    /\ end <= start =>
                           r.timeline.elapsed = [unit |-> "s", major |-> 0, minor |-> 0]

\* C14's case: a completed row whose session was last active before the
\* delegating message was created.
C14_Witness ==
    /\ taskPc = "done"
    /\ Len(rows) = 1
    /\ rows[1].status = "completed"
    /\ LastActivity(fsTree, rows[1].sessionId) < DelegatingMessage(fsTree, rows[1].id).created
    /\ LastActivity(fsTree, rows[1].sessionId) /= NullNum
    /\ rows[1].timeline.elapsed.major = 0

\* C15: deriveBackgroundTasks returns at most 50 rows, whatever the number of
\* main session messages and of delegate_task parts in one message, and the rows
\* are in the order of a newest-first scan of the main session's messages.
C15_AtMostFiftyRows ==
    taskPc = "done" =>
        /\ Len(rows) <= 50
        /\ \A i, j \in 1..Len(rows) :
               i < j => DelegatingMessage(fsTree, rows[i].id).created
                            >= DelegatingMessage(fsTree, rows[j].id).created

-----------------------------------------------------------------------------
(***************************************************************************)
(* Source registry and server                                              *)
(***************************************************************************)

\* Bounds of the server model.
MaxAdds == 2
MaxRequests == 3
MaxClock == 2

\* Project paths a user can give. "/link/a" is a symbolic link to "/real/a" and
\* "/real/a/." is "/real/a" written un-normalized.
Paths == {"/real/a", "/link/a", "/real/a/.", "/real/b"}

\* canonicalizeProjectRoot: path.resolve, realpath, path.normalize.
canonicalizeProjectRoot(p) ==
    CASE p = "/link/a" -> "/real/a"
      [] p = "/real/a/." -> "/real/a"
      [] OTHER -> p

CanonicalRoots == {canonicalizeProjectRoot(p) : p \in Paths}

\* hashProjectRoot: the sha256 of the canonical root, here the rank of the hex
\* digest under localeCompare (the digest order is unrelated to the path order).
hashProjectRoot(root) == IF root = "/real/a" THEN 2 ELSE 1

SourceIds == {hashProjectRoot(r) : r \in CanonicalRoots}

\* A source id no registry entry has.
UnknownSourceId == Cardinality(SourceIds) + 1

Undefined == "undefined"
Labels == {Undefined, "one"}

\* registry.sources[id] of an id that is not registered.
NoEntry == [id |-> Null, projectRoot |-> "", label |-> Undefined, createdAt |-> 0, updatedAt |-> 0]

IdleServer ==
    /\ project = "/real/a"
    /\ registry = [i \in SourceIds |-> NoEntry]
    /\ stores = <<>>
    /\ storeBySourceId = [i \in SourceIds |-> Null]
    /\ storeByProjectRoot = [p \in Paths |-> Null]
    /\ clock = 1
    /\ adds = 0
    /\ requests = 0
    /\ response = [status |-> 0, store |-> Null, sourceId |-> Null, query |-> Null]

\* The state start.ts leaves: one store for the --project path as given, storeBySourceId empty,
\* storeByProjectRoot holding that store under the path as given.
ServerStarted ==
    /\ project \in Paths
    /\ registry = [i \in SourceIds |-> NoEntry]
    /\ stores = <<[projectRoot |-> project]>>
    /\ storeBySourceId = [i \in SourceIds |-> Null]
    /\ storeByProjectRoot = [p \in Paths |-> IF p = project THEN 1 ELSE Null]
    /\ clock = 1
    /\ adds = 0
    /\ requests = 0
    /\ response = [status |-> 0, store |-> Null, sourceId |-> Null, query |-> Null]

\* The entry addOrUpdateSource leaves under the id: the existing one with the
\* label given (else its own) and the new updatedAt, or a new one.
\* (sourceEntryFresh: a new entry on every call.)
sourceEntryFresh(existing, id, canonical, label, nowMs) ==
    [id |-> id, projectRoot |-> canonical, label |-> label,
     createdAt |-> nowMs, updatedAt |-> nowMs]
sourceEntry(existing, id, canonical, label, nowMs) ==
    IF existing /= NoEntry
       THEN [existing EXCEPT !.label = IF label /= Undefined THEN label ELSE existing.label,
                             !.updatedAt = nowMs]
       ELSE [id |-> id, projectRoot |-> canonical, label |-> label,
             createdAt |-> nowMs, updatedAt |-> nowMs]

\* addOrUpdateSource, as run by the add command or a test, in one process.
addOrUpdateSource(p, label) ==
    LET canonical == canonicalizeProjectRoot(p)
        id == hashProjectRoot(canonical)
    IN  /\ adds < MaxAdds
        /\ registry' = [registry EXCEPT ![id] =
                             sourceEntry(registry[id], id, canonical, label, clock)]
        /\ adds' = adds + 1
        /\ UNCHANGED <<project, stores, storeBySourceId, storeByProjectRoot, clock,
                       requests, response>>
        /\ UNCHANGED notServer

ClockTick ==
    /\ clock < MaxClock
    /\ clock' = clock + 1
    /\ UNCHANGED <<project, registry, stores, storeBySourceId, storeByProjectRoot,
                   adds, requests, response>>
    /\ UNCHANGED notServer

\* listSources: updatedAt descending, then id ascending; the ids in that order.
RECURSIVE listSources(_, _)
listSources(reg, left) ==
    IF left = {} THEN <<>>
    ELSE LET first == CHOOSE i \in left : \A j \in left :
                          \/ reg[i].updatedAt > reg[j].updatedAt
                          \/ reg[i].updatedAt = reg[j].updatedAt /\ i <= j
         IN  <<first>> \o listSources(reg, left \ {first})

Registered(reg) == {i \in SourceIds : reg[i] /= NoEntry}

\* getDefaultSourceId: listSources(storageRoot)[0]?.id ?? null.
\* (getDefaultSourceIdLast: the last of the list.)
getDefaultSourceIdLast(reg) ==
    LET l == listSources(reg, Registered(reg))
    IN  IF l = <<>> THEN Null ELSE l[Len(l)]
getDefaultSourceId(reg) ==
    LET l == listSources(reg, Registered(reg))
    IN  IF l = <<>> THEN Null ELSE l[1]

\* GET /sources: the list and its first id as defaultSourceId.
sourcesRoute(reg) ==
    [sources |-> listSources(reg, Registered(reg)),
     defaultSourceId |->
        IF Len(listSources(reg, Registered(reg))) >= 1
           THEN listSources(reg, Registered(reg))[1] ELSE Null]

\* getStoreForSource: the store to serve and the maps and stores it leaves.
getStoreForSource(sourceId, projectRoot) ==
    IF storeBySourceId[sourceId] /= Null
       THEN [store |-> storeBySourceId[sourceId], stores |-> stores,
             bySource |-> storeBySourceId, byRoot |-> storeByProjectRoot]
    ELSE IF storeByProjectRoot[projectRoot] /= Null
       THEN [store |-> storeByProjectRoot[projectRoot], stores |-> stores,
             bySource |-> [storeBySourceId EXCEPT ![sourceId] = storeByProjectRoot[projectRoot]],
             byRoot |-> storeByProjectRoot]
    ELSE [store |-> Len(stores) + 1,
          stores |-> Append(stores, [projectRoot |-> projectRoot]),
          bySource |-> [storeBySourceId EXCEPT ![sourceId] = Len(stores) + 1],
          byRoot |-> [storeByProjectRoot EXCEPT ![projectRoot] = Len(stores) + 1]]

\* GET /dashboard with query sourceId q (Null: no sourceId).
GetDashboard(q) ==
    /\ requests < MaxRequests
    /\ requests' = requests + 1
    /\ LET d == getDefaultSourceId(registry)
           id == IF q /= Null THEN q ELSE d
       IN  IF q /= Null /\ (q \notin SourceIds \/ registry[q] = NoEntry)
              THEN /\ response' = [status |-> 400, store |-> Null, sourceId |-> q,
                                    query |-> q]
                   /\ UNCHANGED <<stores, storeBySourceId, storeByProjectRoot>>
           ELSE IF id /= Null
              THEN LET r == getStoreForSource(id, registry[id].projectRoot)
                   IN  /\ response' = [status |-> 200, store |-> r.store, sourceId |-> id,
                                        query |-> q]
                       /\ stores' = r.stores
                       /\ storeBySourceId' = r.bySource
                       /\ storeByProjectRoot' = r.byRoot
           ELSE /\ response' = [status |-> 200, store |-> 1, sourceId |-> Null,
                                 query |-> q]
                /\ UNCHANGED <<stores, storeBySourceId, storeByProjectRoot>>
    /\ UNCHANGED <<project, registry, clock, adds>>
    /\ UNCHANGED notServer

NextServer ==
    \/ \E p \in Paths, l \in Labels : addOrUpdateSource(p, l)
    \/ ClockTick
    \/ \E q \in {Null} \cup SourceIds \cup {UnknownSourceId} : GetDashboard(q)

\* C6: the server holds at most one store instance per canonical project root:
\* two stores never have project roots that canonicalize to the same root.
C6_OneStorePerRoot ==
    \A i, j \in 1..Len(stores) :
        canonicalizeProjectRoot(stores[i].projectRoot) =
            canonicalizeProjectRoot(stores[j].projectRoot) => i = j

\* The source a registry puts first: no other has a greater updatedAt, nor the
\* same updatedAt and a lesser id.
IsDefaultSource(reg, i) ==
    /\ reg[i] /= NoEntry
    /\ \A j \in SourceIds :
          reg[j] /= NoEntry /\ j /= i =>
              \/ reg[i].updatedAt > reg[j].updatedAt
              \/ reg[i].updatedAt = reg[j].updatedAt /\ i < j

\* What a GET /dashboard request that has just been answered did, as C22 has it
\* without its clause on the startup store.
DashboardServed ==
    /\ response'.query = Null /\ Registered(registry) /= {} =>
          /\ response'.status = 200
          /\ IsDefaultSource(registry, response'.sourceId)
          /\ response'.sourceId = sourcesRoute(registry).defaultSourceId
          /\ stores'[response'.store].projectRoot =
                 registry[response'.sourceId].projectRoot
    /\ response'.query = Null /\ Registered(registry) = {} =>
          /\ response'.status = 200
          /\ response'.sourceId = Null
          /\ response'.store = 1
    /\ response'.query /= Null /\ response'.query \notin Registered(registry) =>
          /\ response'.status = 400
          /\ response'.store = Null
          /\ UNCHANGED <<stores, storeBySourceId, storeByProjectRoot>>

\* C22 as amended: GET /dashboard without a sourceId serves the store of the
\* registry's default source (greatest updatedAt, then least id; the id GET
\* /sources reports); it serves the startup store without resolving a source only
\* when the registry has no sources; a sourceId that is not registered gets 400
\* and no store is consulted or created.
C22_DefaultSourceServed == [][requests' /= requests => DashboardServed]_vars

\* C22: as above, and the startup store is served only when the registry has no
\* sources.
C22_StartupStoreOnlyWhenEmpty ==
    [][requests' /= requests =>
          /\ DashboardServed
          /\ response'.query = Null /\ response'.store = 1 =>
                 Registered(registry) = {}]_vars

\* C22's case: a request without sourceId answered from the later of two sources,
\* which is not the startup store.
C22_Witness ==
    /\ response.status = 200
    /\ response.query = Null
    /\ response.sourceId /= Null
    /\ response.store /= 1
    /\ \E j \in Registered(registry) :
          registry[j].updatedAt < registry[response.sourceId].updatedAt
    /\ IsDefaultSource(registry, response.sourceId)

-----------------------------------------------------------------------------
(***************************************************************************)
(* Dashboard store                                                         *)
(***************************************************************************)

\* pollIntervalMs: the default of createDashboardStore, and what start.ts passes.
pollIntervalMs == 2000

\* Bounds of the store model.
EpochMs == 10000
MaxTicks == 3
MaxReads == 3
MaxFsVersion == 2

\* The clock advances between two events by one of these amounts.
TickSteps == {pollIntervalMs \div 2, pollIntervalMs \div 2 + 1}

PayloadFields == {"mainSession", "planProgress", "backgroundTasks",
                  "mainSessionTasks", "timeSeries", "tokenUsage", "raw"}

\* The payload one pass of buildDashboardPayload returns: every field is
\* computed by this pass from the artifact tree it reads.
buildDashboardPayloadPass(pass, tree) ==
    [f \in PayloadFields |-> [pass |-> pass, data |-> tree]]

\* getSnapshot's condition for recomputing (NeedsRecomputeGe: the TTL compared with >=).
NeedsRecomputeGe(c, d, n, l) == c = Null \/ d \/ n - l >= pollIntervalMs
NeedsRecompute(c, d, n, l) == c = Null \/ d \/ n - l > pollIntervalMs

IdleStore ==
    /\ now = EpochMs
    /\ cached = Null
    /\ dirty = TRUE
    /\ lastComputedAt = 0
    /\ heap = <<>>
    /\ handed = {}
    /\ reads = 0
    /\ builds = 0
    /\ fsVersion = 0
    /\ ticks = 0
    /\ lastCall = [done |-> FALSE, recomputed |-> FALSE, hadCache |-> FALSE,
                   wasDirty |-> FALSE, elapsed |-> 0, before |-> Null, after |-> Null]

\* A mutant of markDirty: the watcher's callback recomputes at once.
MarkDirtyEager ==
    /\ builds < MaxReads + MaxFsVersion + 1
    /\ dirty' = FALSE
    /\ builds' = builds + 1
    /\ heap' = Append(heap, buildDashboardPayloadPass(builds + 1, fsVersion))
    /\ cached' = builds + 1
    /\ lastComputedAt' = now
    /\ UNCHANGED <<now, handed, reads, fsVersion, ticks, lastCall>>
    /\ UNCHANGED notStore

\* markDirty, the file watcher's callback: it sets the dirty flag and nothing else.
markDirty ==
    /\ dirty' = TRUE
    /\ UNCHANGED <<now, cached, lastComputedAt, heap, handed, reads, builds,
                   fsVersion, ticks, lastCall>>
    /\ UNCHANGED notStore

\* The agent runtime writes artifact files; the store is not told.
FsWrite ==
    /\ fsVersion < MaxFsVersion
    /\ fsVersion' = fsVersion + 1
    /\ UNCHANGED <<now, cached, dirty, lastComputedAt, heap, handed, reads,
                   builds, ticks, lastCall>>
    /\ UNCHANGED notStore

Tick ==
    /\ ticks < MaxTicks
    /\ \E d \in TickSteps : now' = now + d
    /\ ticks' = ticks + 1
    /\ UNCHANGED <<cached, dirty, lastComputedAt, heap, handed, reads, builds,
                   fsVersion, lastCall>>
    /\ UNCHANGED notStore

\* A mutant of getSnapshot: the recomputation rewrites the cached object in place.
getSnapshotInPlace ==
    /\ reads < MaxReads
    /\ LET recompute == NeedsRecompute(cached, dirty, now, lastComputedAt)
           ref == IF cached = Null THEN 1 ELSE cached
       IN  /\ IF recompute
                 THEN /\ heap' = IF cached = Null
                                    THEN Append(heap, buildDashboardPayloadPass(builds + 1, fsVersion))
                                    ELSE [heap EXCEPT ![ref] = buildDashboardPayloadPass(builds + 1, fsVersion)]
                      /\ cached' = ref
                      /\ lastComputedAt' = now
                      /\ dirty' = FALSE
                      /\ builds' = builds + 1
                 ELSE UNCHANGED <<heap, cached, lastComputedAt, dirty, builds>>
           /\ handed' = handed \cup {[ref |-> cached', seen |-> heap'[cached']]}
           /\ lastCall' = [done |-> TRUE, recomputed |-> recompute, hadCache |-> cached /= Null,
                           wasDirty |-> dirty, elapsed |-> now - lastComputedAt,
                           before |-> cached, after |-> cached']
    /\ reads' = reads + 1
    /\ UNCHANGED <<now, fsVersion, ticks>>
    /\ UNCHANGED notStore

\* getSnapshot: recompute when there is no snapshot, the flag is set or the TTL
\* has passed; hand out the cached object.
getSnapshot ==
    /\ reads < MaxReads
    /\ LET recompute == NeedsRecompute(cached, dirty, now, lastComputedAt)
       IN  /\ IF recompute
                 THEN /\ heap' = Append(heap, buildDashboardPayloadPass(builds + 1, fsVersion))
                      /\ cached' = builds + 1
                      /\ lastComputedAt' = now
                      /\ dirty' = FALSE
                      /\ builds' = builds + 1
                 ELSE UNCHANGED <<heap, cached, lastComputedAt, dirty, builds>>
           /\ handed' = handed \cup {[ref |-> cached', seen |-> heap'[cached']]}
           /\ lastCall' = [done |-> TRUE, recomputed |-> recompute, hadCache |-> cached /= Null,
                           wasDirty |-> dirty, elapsed |-> now - lastComputedAt,
                           before |-> cached, after |-> cached']
    /\ reads' = reads + 1
    /\ UNCHANGED <<now, fsVersion, ticks>>
    /\ UNCHANGED notStore

NextStore == getSnapshot \/ markDirty \/ FsWrite \/ Tick


\* C3: a getSnapshot call recomputes exactly when no snapshot exists yet, the dirty
\* flag is set, or more than pollIntervalMs has passed since the last computation;
\* otherwise it returns the cached snapshot, the same object, unchanged; and the
\* dirty flag is clear whenever a call returns.
C3_RecomputeIffStale ==
    [][reads' = reads + 1 =>
         /\ builds' \in {builds, builds + 1}
         /\ (builds' = builds + 1) <=>
                (cached = Null \/ dirty = TRUE \/ now - lastComputedAt > 2000)
         /\ (builds' = builds => cached' = cached /\ heap' = heap)
         /\ lastCall'.after = cached'
         /\ dirty' = FALSE]_vars

\* C3's case: a call made exactly pollIntervalMs after the last computation, with a
\* clean flag, returned the cached snapshot.
C3_Witness ==
    /\ lastCall.done
    /\ ~lastCall.recomputed
    /\ lastCall.elapsed = 2000
    /\ lastCall.before = lastCall.after

\* C4: recomputation happens only inside getSnapshot: a step that is not a read
\* request builds nothing, and the number of recomputations never exceeds the
\* number of read requests.
C4_NoEagerRecompute ==
    /\ [](builds <= reads)
    /\ [][builds' /= builds => reads' = reads + 1]_vars

\* C4's case: after one read, the flag is set again and the TTL has passed, and
\* still only one recomputation has run.
C4_Witness ==
    /\ reads = 1
    /\ builds = 1
    /\ dirty = TRUE
    /\ now - lastComputedAt > 2000

\* C5: every snapshot handed to a reader was built by one pass (all its fields
\* carry the same pass), and it is still what the reader saw after any later
\* recomputation.
C5_SnapshotOnePass ==
    \A h \in handed :
        /\ \A f, g \in PayloadFields : h.seen[f].pass = h.seen[g].pass
        /\ heap[h.ref] = h.seen

\* C5's case: a reader holds a snapshot and a later recomputation has produced
\* another one from a changed artifact tree.
C5_Witness ==
    \E h1, h2 \in handed :
        /\ h1.ref /= h2.ref
        /\ h1.seen["raw"].data /= h2.seen["raw"].data

-----------------------------------------------------------------------------
(***************************************************************************)
(* Token usage (deriveTokenUsage, aggregateTokenUsage)                     *)
(***************************************************************************)

\* clampToken: a number that is finite and not negative, else 0.
\* (clampTokenNoSign: without the test of the sign.)
clampTokenNoSign(value) ==
    IF value.type = "number" /\ value.finite THEN value.n ELSE 0
clampToken(value) ==
    IF value.type = "number" /\ value.finite /\ value.n >= 0 THEN value.n ELSE 0

UnknownModel == <<"unknown/unknown">>

\* a.model.localeCompare(b.model) of the model strings of the trees explored.
ModelRank(model) ==
    IF model = <<"anthropic/claude">> THEN 1
    ELSE IF model = <<"openai/gpt">> THEN 2
    ELSE 3

blankRow(model) ==
    [model |-> model, input |-> 0, output |-> 0, reasoning |-> 0,
     cacheRead |-> 0, cacheWrite |-> 0, total |-> 0]

EMPTY_TOTALS ==
    [input |-> 0, output |-> 0, reasoning |-> 0, cacheRead |-> 0, cacheWrite |-> 0,
     total |-> 0]

\* if (id) { if (seenMessageIds.has(id)) continue ... }  (seenBeforeNever: no
\* message is taken for seen.)
seenBeforeNever(id, seenMessageIds) == FALSE
seenBefore(id, seenMessageIds) == id /= Null /\ id \in seenMessageIds

\* rows.reduce: the column sums.  (sumRowsOfCounters: the total summed from the
\* input and output columns.)
sumRowsOfCounters(sorted) ==
    LET reduce[k \in 0..Len(sorted)] ==
            IF k = 0 THEN EMPTY_TOTALS
            ELSE [input |-> reduce[k - 1].input + sorted[k].input,
                  output |-> reduce[k - 1].output + sorted[k].output,
                  reasoning |-> reduce[k - 1].reasoning + sorted[k].reasoning,
                  cacheRead |-> reduce[k - 1].cacheRead + sorted[k].cacheRead,
                  cacheWrite |-> reduce[k - 1].cacheWrite + sorted[k].cacheWrite,
                  total |-> reduce[k - 1].total + sorted[k].input + sorted[k].output]
    IN  reduce[Len(sorted)]
sumRows(sorted) ==
    LET reduce[k \in 0..Len(sorted)] ==
            IF k = 0 THEN EMPTY_TOTALS
            ELSE [input |-> reduce[k - 1].input + sorted[k].input,
                  output |-> reduce[k - 1].output + sorted[k].output,
                  reasoning |-> reduce[k - 1].reasoning + sorted[k].reasoning,
                  cacheRead |-> reduce[k - 1].cacheRead + sorted[k].cacheRead,
                  cacheWrite |-> reduce[k - 1].cacheWrite + sorted[k].cacheWrite,
                  total |-> reduce[k - 1].total + sorted[k].total]
    IN  reduce[Len(sorted)]

usageBefore(a, b) ==
    IF b.total /= a.total THEN b.total - a.total < 0
    ELSE ModelRank(a.model) < ModelRank(b.model)

\* aggregateTokenUsage: one row per model over the assistant messages, a message
\* id counted once; rows by total descending, then model; totals over the rows.
aggregateTokenUsage(metas) ==
    LET step[k \in 0..Len(metas)] ==
            IF k = 0 THEN [rowsByModel |-> <<>>, seenMessageIds |-> {}]
            ELSE LET meta == metas[k]
                     prev == step[k - 1]
                 IN  IF meta.role /= "assistant" THEN prev
                     ELSE IF seenBefore(meta.id, prev.seenMessageIds) THEN prev
                     ELSE
                       LET model == IF meta.model = NullStr THEN UnknownModel ELSE meta.model
                           input == clampToken(meta.tokens.input)
                           output == clampToken(meta.tokens.output)
                           reasoning == clampToken(meta.tokens.reasoning)
                           cacheRead == clampToken(meta.tokens.cacheRead)
                           cacheWrite == clampToken(meta.tokens.cacheWrite)
                           total == input + output + reasoning + cacheRead + cacheWrite
                           at == {i \in 1..Len(prev.rowsByModel) : prev.rowsByModel[i].model = model}
                           row == IF at = {} THEN blankRow(model)
                                  ELSE prev.rowsByModel[CHOOSE i \in at : TRUE]
                           added == [model |-> model,
                                     input |-> row.input + input,
                                     output |-> row.output + output,
                                     reasoning |-> row.reasoning + reasoning,
                                     cacheRead |-> row.cacheRead + cacheRead,
                                     cacheWrite |-> row.cacheWrite + cacheWrite,
                                     total |-> row.total + total]
                       IN  [rowsByModel |->
                                IF at = {} THEN Append(prev.rowsByModel, added)
                                ELSE [prev.rowsByModel EXCEPT ![CHOOSE i \in at : TRUE] = added],
                            seenMessageIds |->
                                IF meta.id /= Null THEN prev.seenMessageIds \cup {meta.id}
                                ELSE prev.seenMessageIds]
        sorted == StableSort(step[Len(metas)].rowsByModel, usageBefore)
    IN  [rows |-> sorted, totals |-> sumRows(sorted)]

\* readSessionMetas: every message file of a session's message directory; none
\* when listJsonFiles cannot list it.
readSessionMetas(tree, sessionId) ==
    IF tree.dirOf[sessionId] = "nonempty" THEN tree.msgsOf[sessionId] ELSE <<>>

\* deriveTokenUsage: the metas of the main session, then of each background
\* session once, in row order; aggregated.
deriveTokenUsage(tree, hasMainSession, backgroundSessionIds) ==
    LET push[k \in 0..Len(backgroundSessionIds)] ==
            IF k = 0 THEN <<>>
            ELSE LET id == backgroundSessionIds[k]
                 IN  IF id = Null \/ \E j \in 1..Len(push[k - 1]) : push[k - 1][j] = id
                        THEN push[k - 1]
                        ELSE Append(push[k - 1], id)
        sessionIds == push[Len(backgroundSessionIds)]
        collect[k \in 0..Len(sessionIds)] ==
            IF k = 0 THEN (IF hasMainSession THEN tree.main ELSE <<>>)
            ELSE collect[k - 1] \o readSessionMetas(tree, sessionIds[k])
    IN  aggregateTokenUsage(collect[Len(sessionIds)])

\* ---- the message files explored ----

\* Bound of the token usage model: the message files of the main session.
MaxMetas == 2

\* meta.tokens of a message: well-formed; with a negative, a non-numeric and a NaN
\* field; with an infinite field; with a total of the producer's; without tokens.
ValidTokens == TokensOf(Num(1), Num(2), Num(3), Num(4), Num(5), NotANumber)
InvalidTokens == TokensOf(Num(-5), NotANumber, NaN, Num(-1), Num(3), NotANumber)
InfiniteTokens == TokensOf(Infinity, Num(1), Num(0), Num(0), Num(0), NotANumber)
EmbeddedTotalTokens == TokensOf(Num(1), Num(2), Num(3), Num(4), Num(5), Num(20))
NoTokens ==
    TokensOf(NotANumber, NotANumber, NotANumber, NotANumber, NotANumber, NotANumber)

UsageMeta(id, role, model, tokens) ==
    [id |-> id, role |-> role, model |-> model, tokens |-> tokens]

\* The message files explored: two with the same id and other counters, other
\* models, no id, no model, a user message.
UsageMetas ==
    {UsageMeta(1, "assistant", <<"openai/gpt">>, ValidTokens),
     UsageMeta(1, "assistant", <<"openai/gpt">>, Tokens(9, 0)),
     UsageMeta(2, "assistant", <<"anthropic/claude">>, ValidTokens),
     UsageMeta(2, "assistant", <<"openai/gpt">>, InvalidTokens),
     UsageMeta(2, "assistant", <<"openai/gpt">>, InfiniteTokens),
     UsageMeta(2, "assistant", <<"openai/gpt">>, EmbeddedTotalTokens),
     UsageMeta(Null, "assistant", NullStr, ValidTokens),
     UsageMeta(Null, "assistant", <<"anthropic/claude">>, NoTokens),
     UsageMeta(1, "user", <<"openai/gpt">>, Tokens(7, 7))}

MainUsageLists == UNION {[1..n -> UsageMetas] : n \in 0..MaxMetas}

\* The message files of every background session: a copy of a main session
\* message with other counters, and one message more.
ChildUsageLists ==
    {<<>>,
     <<UsageMeta(1, "assistant", <<"openai/gpt">>, Tokens(9, 0))>>,
     <<UsageMeta(3, "assistant", <<"anthropic/claude">>, ValidTokens),
       UsageMeta(Null, "assistant", NullStr, InvalidTokens)>>}

\* opts.backgroundSessionIds: none, one, one twice, a blank one, two.
BackgroundIdLists == {<<>>, <<1>>, <<1, 1>>, <<Null, 1>>, <<2, 1>>}

UsageInputs ==
    {[tree |-> [sessions |-> <<>>,
                dirOf |-> [i \in SessionIdSet |-> IF i = 1 THEN d ELSE "nonempty"],
                msgsOf |-> [i \in SessionIdSet |-> c],
                main |-> l],
      session |-> b,
      ids |-> ids] :
        l \in MainUsageLists, c \in ChildUsageLists,
        d \in {"nonempty", "missing", "notdir"},
        b \in BOOLEAN, ids \in BackgroundIdLists}

IdleUsage ==
    /\ usageIn = [tree |-> EmptyTree, session |-> FALSE, ids |-> <<>>]
    /\ usageOut = [rows |-> <<>>, totals |-> EMPTY_TOTALS]
    /\ usagePc = "input"

UsageGiven ==
    /\ usageIn \in UsageInputs
    /\ usageOut = [rows |-> <<>>, totals |-> EMPTY_TOTALS]
    /\ usagePc = "input"

\* One call of deriveTokenUsage.
DeriveUsage ==
    /\ usagePc = "input"
    /\ usageOut' = deriveTokenUsage(usageIn.tree, usageIn.session, usageIn.ids)
    /\ usagePc' = "done"
    /\ UNCHANGED usageIn
    /\ UNCHANGED notUsage

NextUsage == DeriveUsage

\* ---- what the pass is held to ----

CounterNames == {"input", "output", "reasoning", "cacheRead", "cacheWrite"}
FieldNames == CounterNames \cup {"total"}

\* The sum of one field over the first k rows.
RECURSIVE ColumnSum(_, _, _)
ColumnSum(table, k, field) ==
    IF k = 0 THEN 0 ELSE ColumnSum(table, k - 1, field) + table[k][field]

\* C16: each of the six fields of totals is the sum of that field over the rows
\* returned, whatever the message metas (duplicate ids, negative, NaN and
\* non-numeric token fields included).
C16_TotalsAreColumnSums ==
    usagePc = "done" =>
        \A field \in FieldNames :
            usageOut.totals[field] =
                ColumnSum(usageOut.rows, Len(usageOut.rows), field)

\* C16's case: two rows at least, from a main session whose first message has
\* invalid token fields and whose second message repeats its id.
C16_Witness ==
    /\ usagePc = "done"
    /\ Len(usageOut.rows) >= 2
    /\ usageOut.totals.total > 0
    /\ \E j, k \in 1..Len(usageIn.tree.main) :
           /\ j < k
           /\ usageIn.tree.main[j].id = usageIn.tree.main[k].id
           /\ usageIn.tree.main[j].role = "assistant"
           /\ usageIn.tree.main[j].tokens = InvalidTokens
           /\ usageIn.tree.main[k].role = "assistant"
    /\ usageIn.session

\* The ids of the background sessions scanned: each one once, at its first place.
RECURSIVE FirstOfEach(_, _)
FirstOfEach(ids, k) ==
    IF k = 0 THEN <<>>
    ELSE FirstOfEach(ids, k - 1) \o
         (IF ids[k] /= Null /\ \A j \in 1..(k - 1) : ids[j] /= ids[k]
             THEN <<ids[k]>> ELSE <<>>)

RECURSIVE FilesOf(_, _)
FilesOf(tree, sessionIds) ==
    IF sessionIds = <<>> THEN <<>>
    ELSE (IF tree.dirOf[Head(sessionIds)] = "nonempty"
             THEN tree.msgsOf[Head(sessionIds)] ELSE <<>>)
         \o FilesOf(tree, Tail(sessionIds))

\* The scan order of a pass: the message files of the main session, then those
\* of the background sessions in row order.
ScanOrder(in) ==
    (IF in.session THEN in.tree.main ELSE <<>>)
    \o FilesOf(in.tree, FirstOfEach(in.ids, Len(in.ids)))

\* The k-th message of the scan is an assistant message, and no assistant message
\* before it has its id.
Counted(scan, k) ==
    /\ scan[k].role = "assistant"
    /\ \/ scan[k].id = Null
       \/ \A j \in 1..(k - 1) :
             ~(scan[j].role = "assistant" /\ scan[j].id = scan[k].id)

ModelName(meta) == IF meta.model = NullStr THEN UnknownModel ELSE meta.model

\* What the counted messages of a model among the first k give to one counter.
RECURSIVE Contribution(_, _, _, _)
Contribution(scan, k, model, field) ==
    IF k = 0 THEN 0
    ELSE Contribution(scan, k - 1, model, field)
         + (IF Counted(scan, k) /\ ModelName(scan[k]) = model
               THEN clampToken(scan[k].tokens[field]) ELSE 0)

FiveCounters(scan, k, model) ==
    Contribution(scan, k, model, "input") + Contribution(scan, k, model, "output")
    + Contribution(scan, k, model, "reasoning")
    + Contribution(scan, k, model, "cacheRead")
    + Contribution(scan, k, model, "cacheWrite")

\* C17: an assistant message is counted once in a pass: of the messages with one
\* id only the first in scan order (main session, then the background sessions
\* in row order) adds to its model's row, the later ones add nothing.
C17_FirstOccurrenceCounted ==
    usagePc = "done" =>
        LET scan == ScanOrder(usageIn)
            table == usageOut.rows
        IN  /\ {table[i].model : i \in 1..Len(table)} =
                   {ModelName(scan[k]) : k \in {k \in 1..Len(scan) : Counted(scan, k)}}
            /\ \A i, j \in 1..Len(table) : table[i].model = table[j].model => i = j
            /\ \A i \in 1..Len(table) :
                   /\ \A field \in CounterNames :
                          table[i][field] =
                              Contribution(scan, Len(scan), table[i].model, field)
                   /\ table[i].total = FiveCounters(scan, Len(scan), table[i].model)

\* C17's case: a message of the main session is met again, with other counters,
\* in a background session.
C17_Witness ==
    /\ usagePc = "done"
    /\ usageIn.session
    /\ LET scan == ScanOrder(usageIn)
       IN  \E j \in 1..Len(usageIn.tree.main) :
             \E k \in (Len(usageIn.tree.main) + 1)..Len(scan) :
                /\ Counted(scan, j)
                /\ scan[k].role = "assistant"
                /\ scan[k].id = scan[j].id
                /\ scan[j].id /= Null
                /\ scan[k].tokens /= scan[j].tokens

\* A total of the producer's that is present and well-formed.
EmbeddedTotal(meta) ==
    meta.tokens.total.type = "number" /\ meta.tokens.total.finite
    /\ meta.tokens.total.n >= 0

\* What the counted messages of a model among the first k give to the total when
\* the total embedded by the producer wins.
RECURSIVE EmbeddedOrSum(_, _, _)
EmbeddedOrSum(scan, k, model) ==
    IF k = 0 THEN 0
    ELSE EmbeddedOrSum(scan, k - 1, model)
         + (IF ~(Counted(scan, k) /\ ModelName(scan[k]) = model) THEN 0
            ELSE IF EmbeddedTotal(scan[k]) THEN scan[k].tokens.total.n
            ELSE clampToken(scan[k].tokens.input) + clampToken(scan[k].tokens.output)
                 + clampToken(scan[k].tokens.reasoning)
                 + clampToken(scan[k].tokens.cacheRead)
                 + clampToken(scan[k].tokens.cacheWrite))

\* C18: a counted assistant message adds to the total of its model's row the
\* total embedded by the producer when there is a well-formed one, and the sum of
\* the five counters otherwise.
C18_EmbeddedTotalWins ==
    usagePc = "done" =>
        LET scan == ScanOrder(usageIn)
        IN  \A i \in 1..Len(usageOut.rows) :
              usageOut.rows[i].total =
                  EmbeddedOrSum(scan, Len(scan), usageOut.rows[i].model)

\* A token field that is a finite number, zero or more.
ValidField(value) == value.type = "number" /\ value.finite /\ value.n >= 0

\* The message with every invalid counter replaced by zero.
Sanitized(meta) ==
    [meta EXCEPT !.tokens =
        [field \in DOMAIN meta.tokens |->
            IF field \in CounterNames /\ ~ValidField(meta.tokens[field])
               THEN Num(0) ELSE meta.tokens[field]]]

SanitizedList(metas) == [k \in 1..Len(metas) |-> Sanitized(metas[k])]

C20_NeverThrows == taskPc /= "threw" /\ usagePc \in {"input", "done"}

-----------------------------------------------------------------------------
(***************************************************************************)
(* Payload builder (buildDashboardPayload)                                 *)
(*                                                                         *)
(* The payload is a JSON value: a leaf, an object (its fields by key) or   *)
(* an array (its items).                                                   *)
(***************************************************************************)

JLeaf(v) == [kind |-> "leaf", value |-> v]
JObj(fields) == [kind |-> "object", fields |-> fields]
JArr(items) == [kind |-> "array", items |-> items]

\* Bound of the payload model: the steps of the active plan.
MaxSteps == 2

\* formatIso: "never" for no time.
formatIso(ts) == IF ts = NullNum \/ ts = 0 THEN <<"never">> ELSE <<ts>>

mainStatusPill(status) ==
    IF status = "running_tool" THEN "running tool"
    ELSE IF status \in {"thinking", "busy", "idle"} THEN status
    ELSE "unknown"

planStatusPill(progress) ==
    IF progress.missing THEN "not started"
    ELSE IF progress.isComplete THEN "complete" ELSE "in progress"

\* getMainSessionView of the active session, and the view without a session.
getMainSessionView(hasSession) ==
    IF hasSession
       THEN [agent |-> <<"sisyphus">>, currentTool |-> NullStr, lastUpdated |-> StartedAt,
             sessionLabel |-> <<"session">>, status |-> "idle", currentModel |-> NullStr]
       ELSE [agent |-> <<"unknown">>, currentTool |-> NullStr, lastUpdated |-> NullNum,
             sessionLabel |-> <<"(no session)">>, status |-> "unknown", currentModel |-> NullStr]

\* readPlanProgress and readPlanSteps of a plan with n steps, none checked.
readPlanProgress(hasBoulder, n) ==
    IF hasBoulder THEN [total |-> n, completed |-> 0, isComplete |-> FALSE, missing |-> FALSE]
    ELSE [total |-> 0, completed |-> 0, isComplete |-> FALSE, missing |-> TRUE]

readPlanSteps(hasBoulder, n) ==
    IF hasBoulder
       THEN [missing |-> FALSE,
             steps |-> [k \in 1..n |-> JObj([checked |-> JLeaf(FALSE), text |-> JLeaf(<<"step">>)])]]
       ELSE [missing |-> TRUE, steps |-> <<>>]

\* deriveTimeSeriesActivity: the window and one series of zeros.
deriveTimeSeriesActivity(nowMs) ==
    JObj([windowMs |-> JLeaf(300000), bucketMs |-> JLeaf(2000), buckets |-> JLeaf(150),
          anchorMs |-> JLeaf(nowMs), serverNowMs |-> JLeaf(nowMs),
          series |-> JArr(<<JObj([id |-> JLeaf("overall-main"), label |-> JLeaf("Overall"),
                                  tone |-> JLeaf("muted"),
                                  values |-> JArr(<<JLeaf(0), JLeaf(0)>>)])>>)])

\* An element of payload.backgroundTasks.  (TaskRowJsonWithState: the row with the
\* tool part's state copied in.)
TaskRowJsonWithState(t) ==
    JObj([id |-> JLeaf(t.id), description |-> JLeaf(t.description), agent |-> JLeaf(t.agent),
          lastModel |-> JLeaf(t.lastModel), status |-> JLeaf(t.status),
          toolCalls |-> JLeaf(IF t.toolCalls = NullNum THEN 0 ELSE t.toolCalls),
          lastTool |-> JLeaf(IF t.lastTool = NullStr THEN <<"-">> ELSE t.lastTool),
          timeline |-> JLeaf(t.timeline), sessionId |-> JLeaf(t.sessionId),
          state |-> JObj([input |-> JLeaf(Secret)])])
TaskRowJson(t) ==
    JObj([id |-> JLeaf(t.id), description |-> JLeaf(t.description), agent |-> JLeaf(t.agent),
          lastModel |-> JLeaf(t.lastModel), status |-> JLeaf(t.status),
          toolCalls |-> JLeaf(IF t.toolCalls = NullNum THEN 0 ELSE t.toolCalls),
          lastTool |-> JLeaf(IF t.lastTool = NullStr THEN <<"-">> ELSE t.lastTool),
          timeline |-> JLeaf(t.timeline), sessionId |-> JLeaf(t.sessionId)])

\* payload.mainSessionTasks: nothing without a session, else the one row of the
\* main session.
mainSessionTasks(hasSession, main, nowMs) ==
    IF ~hasSession THEN JArr(<<>>)
    ELSE LET status == IF main.status \in {"running_tool", "thinking", "busy"} THEN "running"
                       ELSE IF main.status = "idle" THEN "idle" ELSE "unknown"
             endAtMs == IF status = "running" THEN nowMs
                        ELSE IF main.lastUpdated = NullNum THEN nowMs ELSE main.lastUpdated
         IN  JArr(<<JObj([id |-> JLeaf("main-session"), description |-> JLeaf("Main session"),
                          subline |-> JLeaf(mainSessionId), agent |-> JLeaf(main.agent),
                          lastModel |-> JLeaf(main.currentModel), status |-> JLeaf(status),
                          toolCalls |-> JLeaf(0), lastTool |-> JLeaf(<<"-">>),
                          timeline |-> JLeaf(formatTimeline(StartedAt, endAtMs)),
                          sessionId |-> JLeaf(mainSessionId)])>>)

TokenRowJson(r) ==
    JObj([model |-> JLeaf(r.model), input |-> JLeaf(r.input), output |-> JLeaf(r.output),
          reasoning |-> JLeaf(r.reasoning), cacheRead |-> JLeaf(r.cacheRead),
          cacheWrite |-> JLeaf(r.cacheWrite), total |-> JLeaf(r.total)])

TokenUsageJson(usage) ==
    JObj([rows |-> JArr([k \in 1..Len(usage.rows) |-> TokenRowJson(usage.rows[k])]),
          totals |-> JObj([input |-> JLeaf(usage.totals.input),
                           output |-> JLeaf(usage.totals.output),
                           reasoning |-> JLeaf(usage.totals.reasoning),
                           cacheRead |-> JLeaf(usage.totals.cacheRead),
                           cacheWrite |-> JLeaf(usage.totals.cacheWrite),
                           total |-> JLeaf(usage.totals.total)])])

\* payload.mainSession
mainSessionJson(hasSession, main) ==
    JObj([agent |-> JLeaf(main.agent), currentModel |-> JLeaf(main.currentModel),
          currentTool |-> JLeaf(IF main.currentTool = NullStr THEN <<"-">>
                                ELSE main.currentTool),
          lastUpdatedLabel |-> JLeaf(formatIso(main.lastUpdated)),
          session |-> JLeaf(main.sessionLabel),
          sessionId |-> JLeaf(IF hasSession THEN mainSessionId ELSE "null"),
          statusPill |-> JLeaf(mainStatusPill(main.status))])

\* payload.planProgress
planProgressJson(hasBoulder, plan, planSteps) ==
    JObj([name |-> JLeaf(IF hasBoulder THEN "plan" ELSE "(no active plan)"),
          completed |-> JLeaf(plan.completed), total |-> JLeaf(plan.total),
          path |-> JLeaf(IF hasBoulder THEN "plan.md" ELSE ""),
          statusPill |-> JLeaf(planStatusPill(plan)),
          steps |-> JArr(IF planSteps.missing THEN <<>> ELSE planSteps.steps)])

\* The payload literal: the seven fields; raw repeats the first five.
payloadOf(mainSession, planProgress, backgroundTasks, sessionTasks, timeSeries, tokenUsage) ==
    JObj([mainSession |-> mainSession,
          planProgress |-> planProgress,
          backgroundTasks |-> backgroundTasks,
          mainSessionTasks |-> sessionTasks,
          timeSeries |-> timeSeries,
          tokenUsage |-> tokenUsage,
          raw |-> JObj([mainSession |-> mainSession,
                        planProgress |-> planProgress,
                        backgroundTasks |-> backgroundTasks,
                        mainSessionTasks |-> sessionTasks,
                        timeSeries |-> timeSeries])])

\* The payload of the views and rows one pass derived.
payloadOfTasks(in, nowMs, main, tasks) ==
    payloadOf(mainSessionJson(in.session, main),
              planProgressJson(in.boulder, readPlanProgress(in.boulder, in.steps),
                               readPlanSteps(in.boulder, in.steps)),
              JArr([k \in 1..Len(tasks) |-> TaskRowJson(tasks[k])]),
              mainSessionTasks(in.session, main, nowMs),
              deriveTimeSeriesActivity(nowMs),
              TokenUsageJson(deriveTokenUsage(in.tree, in.session,
                                              [k \in 1..Len(tasks) |-> tasks[k].sessionId])))

\* buildDashboardPayload: the main session view, the background task rows of the
\* session (none without a session), and the payload built from them.
buildDashboardPayload(in, nowMs) ==
    payloadOfTasks(in, nowMs, getMainSessionView(in.session),
                   IF in.session THEN deriveBackgroundTasks(in.tree, nowMs) ELSE <<>>)

\* ---- the inputs explored ----

\* What the message files of the child sessions may hold: the assistant message;
\* with a user message; with a copy of the main session's message; a message
\* without id and model whose counters are not numbers.
ChildMessageVariants ==
    {ChildMessages,
     ChildMessages \o <<[id |-> 3, created |-> StartedAt + 600, tools |-> <<>>,
                         model |-> <<"openai/gpt">>, role |-> "user",
                         tokens |-> Tokens(7, 7)]>>,
     <<[id |-> 1, created |-> StartedAt, tools |-> <<>>, model |-> <<"openai/gpt">>,
        role |-> "assistant", tokens |-> Tokens(4, 2)]>> \o ChildMessages,
     <<[id |-> Null, created |-> StartedAt + 700, tools |-> <<>>, model |-> NullStr,
        role |-> "assistant",
        tokens |-> TokensOf(NotANumber, NotANumber, NotANumber, NotANumber, NotANumber,
                            NotANumber)]>>}

PayloadTrees ==
    {[t EXCEPT !.msgsOf = [i \in SessionIdSet |-> c], !.main[1].tokens = Tokens(m, m)] :
        t \in {u \in InputTrees : u.main[1].parts[1].input.description = Desc},
        c \in ChildMessageVariants,
        m \in {0, 4}}

PayloadInputs ==
    [session : BOOLEAN, boulder : BOOLEAN, steps : 0..MaxSteps, tree : PayloadTrees]

IdlePayload ==
    /\ payloadIn = [session |-> FALSE, boulder |-> FALSE, steps |-> 0, tree |-> EmptyTree]
    /\ payload = JLeaf(Null)
    /\ payloadPc = "input"

PayloadGiven ==
    /\ payloadIn \in PayloadInputs
    /\ payload = JLeaf(Null)
    /\ payloadPc = "input"

\* One pass of buildDashboardPayload.
BuildPayload ==
    /\ payloadPc = "input"
    /\ payload' = buildDashboardPayload(payloadIn, NowMs)
    /\ payloadPc' = "done"
    /\ UNCHANGED payloadIn
    /\ UNCHANGED notPayload

NextPayload == BuildPayload

\* The keys of a JSON value at every depth (the walk of the payload test's
\* hasSensitiveKeys).
RECURSIVE KeysIn(_)
KeysIn(v) ==
    IF v.kind = "object"
       THEN DOMAIN v.fields \cup UNION {KeysIn(v.fields[k]) : k \in DOMAIN v.fields}
    ELSE IF v.kind = "array"
       THEN UNION {KeysIn(v.items[i]) : i \in 1..Len(v.items)}
    ELSE {}

sensitiveKeys == {"prompt", "input", "output", "error", "state"}

\* C1: the payload holds no key named prompt, error or state at any depth; the
\* keys input and output occur only as the token counters of tokenUsage (in totals
\* and in each row), so mainSession, planProgress, backgroundTasks,
\* mainSessionTasks, timeSeries and raw hold none of the five keys.
C1_SensitiveKeysOnlyTokenCounters ==
    payloadPc = "done" =>
        /\ \A f \in DOMAIN payload.fields \ {"tokenUsage"} :
               KeysIn(payload.fields[f]) \cap sensitiveKeys = {}
        /\ KeysIn(payload.fields.tokenUsage) \cap {"prompt", "error", "state"} = {}
        /\ \A k \in {"input", "output"} :
               payload.fields.tokenUsage.fields.totals.fields[k].kind = "leaf"
        /\ \A i \in 1..Len(payload.fields.tokenUsage.fields.rows.items) :
               \A k \in {"input", "output"} :
                   payload.fields.tokenUsage.fields.rows.items[i].fields[k].kind = "leaf"

\* C1 as stated: no key named prompt, input, output, error or state at any depth of
\* the payload, tokenUsage included.
C1_NoSensitiveKeyAnywhere ==
    payloadPc = "done" => KeysIn(payload) \cap sensitiveKeys = {}

\* C1's case: a payload with a background task row derived from a delegate_task
\* part that carries a prompt, an output and an error, and with token usage rows.
C1_Witness ==
    /\ payloadPc = "done"
    /\ Len(payload.fields.backgroundTasks.items) > 0
    /\ Len(payload.fields.tokenUsage.fields.rows.items) > 1
    /\ payloadIn.tree.main[1].parts[1].input.prompt = Secret
    /\ payloadIn.tree.main[1].parts[1].output = Secret

-----------------------------------------------------------------------------
(***************************************************************************)
(* Tool calls route (GET /tool-calls/:sessionId)                           *)
(*                                                                         *)
(* A session id is the sequence of its characters.  The handler's steps on *)
(* the file system are recorded in the order it takes them.                *)
(***************************************************************************)

\* Bound of the route model: the length of the ids spelled out.
MaxIdLen == 2

\* SESSION_ID_PATTERN = /^[A-Za-z0-9_-]{1,128}$/
PatternChars == {"s", "1", "_", "-"}
PatternMaxLen == 128
SESSION_ID_PATTERN(sessionId) ==
    /\ Len(sessionId) >= 1
    /\ Len(sessionId) <= PatternMaxLen
    /\ \A k \in 1..Len(sessionId) : sessionId[k] \in PatternChars

\* The characters of the ids explored: of the pattern, and not of it.
IdChars == {"s", "_", "-", "!", "."}

RequestIds ==
    UNION {[1..n -> IdChars] : n \in 1..MaxIdLen}
    \cup {[k \in 1..PatternMaxLen |-> "s"], [k \in 1..(PatternMaxLen + 1) |-> "s"]}

\* What storage/message/<sessionId> is: nothing; a directory of the storage root;
\* a symbolic link to a directory outside the storage root.
MessageDirStates == {"missing", "inside", "escapes"}

\* getMessageDir: the path of the session's message directory when the file
\* system has one, else the empty path.
getMessageDir(dirState) == IF dirState = "missing" THEN "" ELSE dirState

\* assertAllowedPath: the real path of the candidate is the root or below it.
assertAllowedPath(candidatePath) == candidatePath = "inside"

\* The handler of GET /tool-calls/:sessionId: the status of the response and the
\* file system steps taken, in order ("probe": getMessageDir looks the directory
\* up; "guard": assertAllowedPath; "read": deriveToolCalls reads the messages).
\* An escape makes assertAllowedPath throw, which is answered with status 500.
toolCallsRoute(sessionId, dirState) ==
    IF ~SESSION_ID_PATTERN(sessionId) THEN [status |-> 400, steps |-> <<>>]
    ELSE IF getMessageDir(dirState) = "" THEN [status |-> 404, steps |-> <<"probe">>]
    ELSE IF ~assertAllowedPath(getMessageDir(dirState))
       THEN [status |-> 500, steps |-> <<"probe", "guard">>]
    ELSE [status |-> 200, steps |-> <<"probe", "guard", "read">>]

IdleToolCalls ==
    /\ tcRequest = [sessionId |-> <<"s">>, dir |-> "missing"]
    /\ tcResponse = [status |-> 0, steps |-> <<>>]

ToolCallsGiven ==
    /\ tcRequest \in [sessionId : RequestIds, dir : MessageDirStates]
    /\ tcResponse = [status |-> 0, steps |-> <<>>]

\* One request of GET /tool-calls/:sessionId.
GetToolCalls ==
    /\ tcResponse.status = 0
    /\ tcResponse' = toolCallsRoute(tcRequest.sessionId, tcRequest.dir)
    /\ UNCHANGED tcRequest
    /\ UNCHANGED notToolCalls

NextToolCalls == GetToolCalls

\* C21: no file access keyed by the session id comes before the id has passed the
\* path guard: every look-up and read follows a passed check, and a request whose
\* id fails the pattern or the guard is answered without a file touched.
C21_GuardBeforeAccess ==
    /\ \A k \in 1..Len(tcResponse.steps) :
          tcResponse.steps[k] \in {"probe", "read"} =>
              \E j \in 1..(k - 1) : tcResponse.steps[j] = "guard"
    /\ tcResponse.status \in {400, 500} =>
          \A k \in 1..Len(tcResponse.steps) : tcResponse.steps[k] \notin {"probe", "read"}

-----------------------------------------------------------------------------
(***************************************************************************)
(* Source registry file                                                    *)
(*                                                                         *)
(* addOrUpdateSource as the processes that call it run it (the add command,*)
(* a test): the registry is loaded, changed in memory, written to          *)
(* sources.json.tmp and renamed over sources.json, with nothing that keeps *)
(* two processes apart.                                                    *)
(***************************************************************************)

\* Bound of the registry file model: the addOrUpdateSource calls made.
MaxCalls == 2

RegistryProcs == {"add 1", "add 2"}

\* The project roots added: a root, a symbolic link to it, another root.
RegistryPaths == {"/real/a", "/link/a", "/real/b"}

NoCall == [projectRoot |-> "", label |-> Undefined, id |-> Null,
           before |-> NoEntry, after |-> NoEntry]

\* No sources.json.tmp.
NoTmpFile == [exists |-> FALSE, registry |-> [i \in SourceIds |-> NoEntry]]

IdleRegistry ==
    /\ sourcesJson = [i \in SourceIds |-> NoEntry]
    /\ sourcesTmp = NoTmpFile
    /\ regProcs = [pr \in RegistryProcs |->
                      [pc |-> "idle", call |-> NoCall, loaded |-> sourcesJson]]
    /\ regClock = 1
    /\ regLog = [calls |-> 0, overlapped |-> FALSE, lastAdd |-> NoCall, returned |-> {}]

\* A process calls addOrUpdateSource at time nowMs: canonical root, id, Date.now(),
\* loadRegistry, and the entry set in the loaded registry.
CallAddOrUpdateSource(pr, p, label, nowMs) ==
    LET canonical == canonicalizeProjectRoot(p)
        id == hashProjectRoot(canonical)
        after == sourceEntry(sourcesJson[id], id, canonical, label, nowMs)
    IN  /\ regProcs[pr].pc \in {"idle", "returned", "threw"}
        /\ nowMs >= regClock
        /\ regClock' = nowMs
        /\ regLog.calls < MaxCalls
        /\ regProcs' = [regProcs EXCEPT ![pr] =
               [pc |-> "loaded",
                call |-> [projectRoot |-> p, label |-> label, id |-> id,
                          before |-> sourcesJson[id], after |-> after],
                loaded |-> [sourcesJson EXCEPT ![id] = after]]]
        /\ regLog' = [regLog EXCEPT
               !.calls = @ + 1,
               !.overlapped = @ \/ \E o \in RegistryProcs \ {pr} :
                                      regProcs[o].pc \in {"loaded", "written"}]
        /\ UNCHANGED <<sourcesJson, sourcesTmp>>
        /\ UNCHANGED notRegistry

\* writeRegistry: fs.writeFileSync(tmpPath, JSON.stringify(registry)).
WriteTmp(pr) ==
    /\ regProcs[pr].pc = "loaded"
    /\ sourcesTmp' = [exists |-> TRUE, registry |-> regProcs[pr].loaded]
    /\ regProcs' = [regProcs EXCEPT ![pr].pc = "written"]
    /\ UNCHANGED <<sourcesJson, regClock, regLog>>
    /\ UNCHANGED notRegistry

\* writeRegistry: fs.renameSync(tmpPath, registryPath), and the return of the id.
\* renameSync throws when another process has renamed the temp file away.
RenameTmp(pr) ==
    /\ regProcs[pr].pc = "written"
    /\ IF ~sourcesTmp.exists
          THEN /\ regProcs' = [regProcs EXCEPT ![pr].pc = "threw",
                                             ![pr].loaded = NoTmpFile.registry]
               /\ UNCHANGED <<sourcesJson, sourcesTmp, regLog>>
          ELSE /\ sourcesJson' = sourcesTmp.registry
               /\ sourcesTmp' = NoTmpFile
               /\ regProcs' = [regProcs EXCEPT ![pr].pc = "returned",
                                             ![pr].loaded = NoTmpFile.registry]
               /\ regLog' = [regLog EXCEPT
                      !.lastAdd = regProcs[pr].call,
                      !.returned = @ \cup {[projectRoot |-> regProcs[pr].call.projectRoot,
                                            id |-> regProcs[pr].call.id]}]
    /\ UNCHANGED regClock
    /\ UNCHANGED notRegistry

NextRegistry ==
    \/ \E pr \in RegistryProcs, p \in RegistryPaths, l \in Labels,
          t \in {regClock, regClock + 1} : CallAddOrUpdateSource(pr, p, l, t)
    \/ \E pr \in RegistryProcs : WriteTmp(pr)
    \/ \E pr \in RegistryProcs : RenameTmp(pr)

\* C23: after any sequence of addOrUpdateSource calls (one after the other) the
\* registry has one entry for each canonical project root: every path variant of
\* a root is given the same id on every call, an entry is stored under its own
\* id, and a call without a label keeps the label and the createdAt recorded
\* before.
C23_OneEntryPerRoot ==
    ~regLog.overlapped =>
        /\ \A a, b \in regLog.returned :
              canonicalizeProjectRoot(a.projectRoot) = canonicalizeProjectRoot(b.projectRoot)
              <=> a.id = b.id
        /\ \A i \in Registered(sourcesJson) :
              /\ sourcesJson[i].id = i
              /\ \A j \in Registered(sourcesJson) :
                    sourcesJson[i].projectRoot = sourcesJson[j].projectRoot => i = j
        /\ Cardinality(Registered(sourcesJson)) =
              Cardinality({canonicalizeProjectRoot(a.projectRoot) : a \in regLog.returned})
        /\ regLog.lastAdd /= NoCall =>
              /\ regLog.lastAdd.after.projectRoot =
                     canonicalizeProjectRoot(regLog.lastAdd.projectRoot)
              /\ regLog.lastAdd.before /= NoEntry =>
                    /\ regLog.lastAdd.after.createdAt = regLog.lastAdd.before.createdAt
                    /\ regLog.lastAdd.label = Undefined =>
                           regLog.lastAdd.after.label = regLog.lastAdd.before.label

\* C23's case: a root registered with a label through its symbolic link, and
\* added again later by its real path without a label.
C23_Witness ==
    /\ ~regLog.overlapped
    /\ [projectRoot |-> "/link/a", id |-> regLog.lastAdd.id] \in regLog.returned
    /\ regLog.lastAdd.projectRoot = "/real/a"
    /\ regLog.lastAdd.label = Undefined
    /\ regLog.lastAdd.before.label /= Undefined
    /\ regLog.lastAdd.after.updatedAt > regLog.lastAdd.after.createdAt
    /\ sourcesJson[regLog.lastAdd.id] = regLog.lastAdd.after
    /\ Cardinality(Registered(sourcesJson)) = 1

\* C29: when two addOrUpdateSource calls for different project roots run at the
\* same time, both calls return and both sources are in the registry afterwards,
\* however their load, temp file write and rename steps interleave.
C29_BothSourcesKept ==
    \A pr, o \in RegistryProcs :
        /\ regProcs[pr].pc \in {"returned", "threw"}
        /\ regProcs[o].pc \in {"returned", "threw"}
        /\ regProcs[pr].call.id /= regProcs[o].call.id
        => /\ regProcs[pr].pc = "returned"
           /\ sourcesJson[regProcs[pr].call.id] /= NoEntry

-----------------------------------------------------------------------------
(***************************************************************************)
(* Waiting ding (computeWaitingDing)                                       *)
(*                                                                         *)
(* prevWaiting is "null", "true" or "false"; lastLeftWaitingAtMs is a time *)
(* or NullNum.                                                             *)
(***************************************************************************)

\* Bound of the ding model: the observations fed to computeWaitingDing.
MaxObs == 4

\* const suppressMs = opts.suppressMs ?? 20_000
SuppressMs == 20000

\* Date.now() at the observations: times less than, exactly and more than
\* SuppressMs apart, and a time before the others.
DingTimes == {500, 1000, 1000 + SuppressMs - 1, 1000 + SuppressMs}

\* computeWaitingDing: whether to play, and the next state.
\* (computeWaitingDingInclusive: a round trip of exactly suppressMs suppressed.
\*  computeWaitingDingAlways: a ding on every waiting observation.)
dingNext(prev, waiting, nowMs) ==
    [prevWaiting |-> IF waiting THEN "true" ELSE "false",
     lastLeftWaitingAtMs |->
        IF waiting THEN NullNum
        ELSE IF prev.prevWaiting = "true" THEN nowMs
        ELSE prev.lastLeftWaitingAtMs]
dingLeftAt(prev, waiting, nowMs) ==
    IF prev.prevWaiting = "true" /\ ~waiting THEN nowMs ELSE prev.lastLeftWaitingAtMs
computeWaitingDingInclusive(prev, waiting, nowMs, suppressMs) ==
    [play |-> /\ prev.prevWaiting = "false" /\ waiting
              /\ ~(/\ dingLeftAt(prev, waiting, nowMs) /= NullNum
                   /\ nowMs - dingLeftAt(prev, waiting, nowMs) >= 0
                   /\ nowMs - dingLeftAt(prev, waiting, nowMs) <= suppressMs),
     next |-> dingNext(prev, waiting, nowMs)]
computeWaitingDingAlways(prev, waiting, nowMs, suppressMs) ==
    [play |-> waiting, next |-> dingNext(prev, waiting, nowMs)]
computeWaitingDing(prev, waiting, nowMs, suppressMs) ==
    [play |-> /\ prev.prevWaiting = "false" /\ waiting
              /\ ~(/\ dingLeftAt(prev, waiting, nowMs) /= NullNum
                   /\ nowMs - dingLeftAt(prev, waiting, nowMs) >= 0
                   /\ nowMs - dingLeftAt(prev, waiting, nowMs) < suppressMs),
     next |-> dingNext(prev, waiting, nowMs)]

\* The refs of the App before the first observation.
IdleDing ==
    /\ dingState = [prevWaiting |-> "null", lastLeftWaitingAtMs |-> NullNum]
    /\ dingTrace = <<>>

\* maybePlayDings: one observation threaded through computeWaitingDing.
Observe(waiting, nowMs) ==
    /\ Len(dingTrace) < MaxObs
    /\ dingState' = computeWaitingDing(dingState, waiting, nowMs, SuppressMs).next
    /\ dingTrace' = Append(dingTrace,
           [waiting |-> waiting, nowMs |-> nowMs,
            play |-> computeWaitingDing(dingState, waiting, nowMs, SuppressMs).play])
    /\ UNCHANGED notDing

NextDing == \E waiting \in BOOLEAN, nowMs \in DingTimes : Observe(waiting, nowMs)

\* C24: on the first observation (prevWaiting null), a session that is waiting
\* for the user makes computeWaitingDing play and record prevWaiting = true.
C24_FirstObservationDings ==
    Len(dingTrace) >= 1 /\ dingTrace[1].waiting =>
        /\ dingTrace[1].play
        /\ Len(dingTrace) = 1 => dingState.prevWaiting = "true"

\* The observations before the k-th at which waiting was left.
LeftAt(k) ==
    {j \in 2..(k - 1) : dingTrace[j - 1].waiting /\ ~dingTrace[j].waiting}

LastLeftAt(k) == CHOOSE j \in LeftAt(k) : \A i \in LeftAt(k) : i <= j

\* C25: when the state goes from not waiting to waiting, the ding is suppressed
\* exactly when waiting was last left less than SuppressMs before; entering
\* waiting SuppressMs or more after leaving it, or without having left it, plays.
C25_SuppressedIffRecentlyLeft ==
    \A k \in 2..Len(dingTrace) :
        ~dingTrace[k - 1].waiting /\ dingTrace[k].waiting =>
            (~dingTrace[k].play <=>
                /\ LeftAt(k) /= {}
                /\ dingTrace[k].nowMs - dingTrace[LastLeftAt(k)].nowMs >= 0
                /\ dingTrace[k].nowMs - dingTrace[LastLeftAt(k)].nowMs < SuppressMs)

\* C25's case: waiting left and entered again SuppressMs - 1 later, without a
\* ding.
C25_Witness ==
    \E k \in 2..Len(dingTrace) :
        /\ LeftAt(k) /= {}
        /\ dingTrace[k].waiting /\ ~dingTrace[k - 1].waiting /\ ~dingTrace[k].play
        /\ dingTrace[k].nowMs - dingTrace[LastLeftAt(k)].nowMs = SuppressMs - 1

\* C30: play is true only on a waiting observation whose preceding observation
\* was not waiting: a run of waiting observations gives one ding at most, and an
\* observation that is not waiting never dings.
C30_DingOnlyOnEntering ==
    /\ \A k \in 1..Len(dingTrace) :
          dingTrace[k].play =>
              /\ dingTrace[k].waiting
              /\ k > 1 => ~dingTrace[k - 1].waiting
    /\ \A j, k \in 1..Len(dingTrace) :
          /\ j < k
          /\ \A i \in j..k : dingTrace[i].waiting
          => ~(dingTrace[j].play /\ dingTrace[k].play)

\* C30's case: a ding on entering waiting, then two more waiting observations
\* without one.
C30_Witness ==
    \E k \in 2..Len(dingTrace) :
        /\ k + 2 <= Len(dingTrace)
        /\ ~dingTrace[k - 1].waiting
        /\ dingTrace[k].play
        /\ dingTrace[k + 1].waiting /\ ~dingTrace[k + 1].play
        /\ dingTrace[k + 2].waiting /\ ~dingTrace[k + 2].play

-----------------------------------------------------------------------------
(***************************************************************************)
(* Time series of the UI (normalizeTimeSeries)                             *)
(*                                                                         *)
(* A missing field of the payload is NullNum; values are integers.         *)
(***************************************************************************)

\* Bounds of the time series model: the greatest `buckets` of a payload, the
\* longest values array, and the most entries of its series list.
MaxBuckets == 3
MaxValues == 4
MaxSeries == 2

TIME_SERIES_DEFAULT_WINDOW_MS == 300000
TIME_SERIES_DEFAULT_BUCKET_MS == 2000
TIME_SERIES_DEFAULT_BUCKETS == TIME_SERIES_DEFAULT_WINDOW_MS \div TIME_SERIES_DEFAULT_BUCKET_MS

TIME_SERIES_SERIES_DEFS ==
    <<"overall-main", "agent:sisyphus", "agent:prometheus", "agent:atlas", "background-total">>

\* Date.now() passed as nowMsFallback.
NowMsFallback == 7500

Zeros(n) == [i \in 1..n |-> 0]

Max2(a, b) == IF a >= b THEN a ELSE b

\* toNonNegativeCount on integers.
toNonNegativeCount(value) == Max2(0, value)

\* makeZeroTimeSeries
makeZeroTimeSeries(windowMs, bucketMs, buckets, anchorMs, serverNowMs) ==
    [windowMs |-> Max2(1, windowMs), buckets |-> Max2(1, buckets),
     bucketMs |-> Max2(1, bucketMs), anchorMs |-> anchorMs, serverNowMs |-> serverNowMs,
     series |-> [d \in 1..Len(TIME_SERIES_SERIES_DEFS) |->
                    [id |-> TIME_SERIES_SERIES_DEFS[d], values |-> Zeros(Max2(1, buckets))]]]

\* byId.get(def.id): the first entry of the list with the id, or no entry.
firstById(seriesInput, id) ==
    IF \E i \in 1..Len(seriesInput) : seriesInput[i].id = id
       THEN seriesInput[CHOOSE i \in 1..Len(seriesInput) :
                /\ seriesInput[i].id = id
                /\ \A j \in 1..(i - 1) : seriesInput[j].id /= id]
       ELSE [id |-> id, hasValues |-> FALSE, values |-> <<>>]

\* valuesRaw.map(toNonNegativeCount), or [] without a values array.
parsedValues(found) ==
    IF found.hasValues
       THEN [i \in 1..Len(found.values) |-> toNonNegativeCount(found.values[i])]
       ELSE <<>>

\* trimmed, then padded.
\* (paddedValuesLeft: the zeros put before the values.)
trimmedValues(parsed, buckets) ==
    IF Len(parsed) > buckets
       THEN SubSeq(parsed, Len(parsed) - buckets + 1, Len(parsed))
       ELSE parsed
paddedValuesLeft(parsed, buckets) ==
    IF Len(trimmedValues(parsed, buckets)) < buckets
       THEN Zeros(buckets - Len(trimmedValues(parsed, buckets))) \o trimmedValues(parsed, buckets)
       ELSE trimmedValues(parsed, buckets)
paddedValues(parsed, buckets) ==
    IF Len(trimmedValues(parsed, buckets)) < buckets
       THEN trimmedValues(parsed, buckets) \o Zeros(buckets - Len(trimmedValues(parsed, buckets)))
       ELSE trimmedValues(parsed, buckets)

tsBucketMs(rec) ==
    Max2(1, IF rec.bucketMs /= NullNum THEN rec.bucketMs ELSE TIME_SERIES_DEFAULT_BUCKET_MS)

\* windowMsRaw && bucketMs ? Math.floor(windowMsRaw / bucketMs) : null
bucketsFromWindow(rec) ==
    IF rec.windowMs /= NullNum /\ rec.windowMs /= 0
       THEN rec.windowMs \div tsBucketMs(rec)
       ELSE NullNum

tsBuckets(rec) ==
    Max2(1, IF rec.buckets /= NullNum THEN rec.buckets
            ELSE IF bucketsFromWindow(rec) /= NullNum THEN bucketsFromWindow(rec)
            ELSE TIME_SERIES_DEFAULT_BUCKETS)

tsServerNowMs(rec) == IF rec.serverNowMs /= NullNum THEN rec.serverNowMs ELSE NowMsFallback

normalizeTimeSeries(input) ==
    IF ~input.isObject
       THEN makeZeroTimeSeries(TIME_SERIES_DEFAULT_WINDOW_MS, TIME_SERIES_DEFAULT_BUCKET_MS,
                TIME_SERIES_DEFAULT_BUCKETS,
                (NowMsFallback \div TIME_SERIES_DEFAULT_BUCKET_MS) * TIME_SERIES_DEFAULT_BUCKET_MS,
                NowMsFallback)
       ELSE [windowMs |-> Max2(1, IF input.windowMs /= NullNum THEN input.windowMs
                                  ELSE tsBuckets(input) * tsBucketMs(input)),
             buckets |-> tsBuckets(input),
             bucketMs |-> tsBucketMs(input),
             anchorMs |-> IF input.anchorMs /= NullNum THEN input.anchorMs
                          ELSE (tsServerNowMs(input) \div tsBucketMs(input)) * tsBucketMs(input),
             serverNowMs |-> tsServerNowMs(input),
             series |-> [d \in 1..Len(TIME_SERIES_SERIES_DEFS) |->
                 [id |-> TIME_SERIES_SERIES_DEFS[d],
                  values |-> paddedValues(
                      parsedValues(firstById(input.series, TIME_SERIES_SERIES_DEFS[d])),
                      tsBuckets(input))]]]

\* The values arrays of the payloads: 1..n, and one with a negative entry.
RawValues ==
    {[i \in 1..n |-> i] : n \in 0..MaxValues} \cup {<<-3, 9>>}

RawSeries ==
    {[id |-> id, hasValues |-> TRUE, values |-> v] :
        id \in {"overall-main", "unknown"}, v \in RawValues}
    \cup {[id |-> "overall-main", hasValues |-> FALSE, values |-> <<>>]}

RawSeriesLists == UNION {[1..n -> RawSeries] : n \in 0..MaxSeries}

TimeSeriesInputs ==
    [isObject : {TRUE}, windowMs : {NullNum, 0, 4000}, buckets : {NullNum} \cup 0..MaxBuckets,
     bucketMs : {NullNum, 1000}, serverNowMs : {NullNum, 5000}, anchorMs : {NullNum},
     series : RawSeriesLists]
    \cup [isObject : {FALSE}, windowMs : {NullNum}, buckets : {NullNum}, bucketMs : {NullNum},
          serverNowMs : {NullNum}, anchorMs : {NullNum}, series : {<<>>}]

NoTimeSeries ==
    [windowMs |-> 0, buckets |-> 0, bucketMs |-> 0, anchorMs |-> 0, serverNowMs |-> 0,
     series |-> <<>>]

IdleTimeSeries ==
    /\ tsInput = [isObject |-> FALSE, windowMs |-> NullNum, buckets |-> NullNum,
                  bucketMs |-> NullNum, serverNowMs |-> NullNum, anchorMs |-> NullNum,
                  series |-> <<>>]
    /\ uiTimeSeries = NoTimeSeries
    /\ tsPc = "input"

TimeSeriesGiven ==
    /\ tsInput \in TimeSeriesInputs
    /\ uiTimeSeries = NoTimeSeries
    /\ tsPc = "input"

\* toDashboardPayload: uiTimeSeries = normalizeTimeSeries(anyJson.uiTimeSeries, Date.now())
NormalizeTimeSeries ==
    /\ tsPc = "input"
    /\ uiTimeSeries' = normalizeTimeSeries(tsInput)
    /\ tsPc' = "done"
    /\ UNCHANGED <<tsInput>>
    /\ UNCHANGED notTimeSeries

NextTimeSeries == NormalizeTimeSeries

\* The source array of the series with the id: the counts of its first entry.
SourceValues(id) == parsedValues(firstById(tsInput.series, id))

\* C26: each series' values array has exactly `buckets` entries; a shorter
\* source array is left-padded with zeros (its values keep the right-most
\* positions), and of a longer one the newest `buckets` entries are kept.
C26_ValuesLeftPadded ==
    tsPc = "done" =>
        \A d \in 1..Len(uiTimeSeries.series) :
            /\ Len(uiTimeSeries.series[d].values) = uiTimeSeries.buckets
            /\ uiTimeSeries.series[d].values =
                   paddedValuesLeft(SourceValues(uiTimeSeries.series[d].id), uiTimeSeries.buckets)

-----------------------------------------------------------------------------
(***************************************************************************)
(* Polling of the UI (the effect around tick)                              *)
(*                                                                         *)
(* A loop is one run of the effect: its closure holds `alive`; timerRef is *)
(* shared by all runs.  A loop has one timer at most, so a timer is named  *)
(* by its loop; timerRef = 0 is no timer id.                               *)
(***************************************************************************)

\* Bounds of the polling model: the runs of the effect and the fetches issued.
MaxEffects == 3
MaxFetches == 5

Loops == 1..MaxEffects

IdlePolling ==
    /\ pollLoops = [l \in Loops |-> [alive |-> FALSE, pc |-> "none", issued |-> 0]]
    /\ pollTimers = [timerRef |-> 0, pending |-> {}, delay |-> 0]
    /\ pollUi = [mounted |-> FALSE, current |-> 0, effects |-> 0,
                 connected |-> FALSE, hadSuccess |-> FALSE]

RECURSIVE IssuedUpTo(_)
IssuedUpTo(l) == IF l = 0 THEN 0 ELSE pollLoops[l].issued + IssuedUpTo(l - 1)

FetchesIssued == IssuedUpTo(MaxEffects)

\* The cleanup of the effect: alive = false; clearTimeout(timerRef.current).
cleanedUp(loops, current) ==
    IF current = 0 THEN loops ELSE [loops EXCEPT ![current].alive = FALSE]

clearedTimers(timers) ==
    IF timers.timerRef /= 0
       THEN [timers EXCEPT !.pending = timers.pending \ {timers.timerRef}]
       ELSE timers

\* The body of the effect: alive = true; tick(), which issues its fetch.
startedLoop(loops, l) ==
    [loops EXCEPT ![l] = [alive |-> TRUE, pc |-> "fetching", issued |-> 1]]

\* The component mounts, or selectedSourceId or sourcesState changes: the
\* cleanup of the previous run, if any, and then the effect.
RunEffect ==
    /\ pollUi.effects < MaxEffects
    /\ pollUi.mounted \/ pollUi.effects = 0
    /\ FetchesIssued < MaxFetches
    /\ pollLoops' = startedLoop(cleanedUp(pollLoops, pollUi.current), pollUi.effects + 1)
    /\ pollTimers' = IF pollUi.current = 0 THEN pollTimers ELSE clearedTimers(pollTimers)
    /\ pollUi' = [pollUi EXCEPT !.mounted = TRUE, !.current = pollUi.effects + 1,
                                !.effects = pollUi.effects + 1]
    /\ UNCHANGED notPolling

\* The component unmounts: the cleanup alone.
Unmount ==
    /\ pollUi.mounted
    /\ pollLoops' = cleanedUp(pollLoops, pollUi.current)
    /\ pollTimers' = clearedTimers(pollTimers)
    /\ pollUi' = [pollUi EXCEPT !.mounted = FALSE, !.current = 0]
    /\ UNCHANGED notPolling

\* safeFetchJson settles in tick: the try or the catch block, which return
\* when alive is false, and then the finally block, which runs in either case.
FetchSettles(l, ok) ==
    /\ pollLoops[l].pc = "fetching"
    /\ pollLoops' = [pollLoops EXCEPT ![l].pc = "timer"]
    /\ pollUi' = IF ~pollLoops[l].alive THEN pollUi
                 ELSE [pollUi EXCEPT !.connected = ok,
                                     !.hadSuccess = pollUi.hadSuccess \/ ok]
    /\ pollTimers' = [timerRef |-> l, pending |-> pollTimers.pending \cup {l},
                      delay |-> IF pollLoops[l].alive /\ ok THEN 2200 ELSE 3600]
    /\ UNCHANGED notPolling

\* The timer of the loop fires: tick issues the next fetch.
TimerFires(l) ==
    /\ l \in pollTimers.pending
    /\ FetchesIssued < MaxFetches
    /\ pollTimers' = [pollTimers EXCEPT !.pending = pollTimers.pending \ {l}]
    /\ pollLoops' = [pollLoops EXCEPT ![l].pc = "fetching",
                                      ![l].issued = pollLoops[l].issued + 1]
    /\ UNCHANGED <<pollUi>>
    /\ UNCHANGED notPolling

NextPolling ==
    \/ RunEffect
    \/ Unmount
    \/ \E l \in Loops, ok \in BOOLEAN : FetchSettles(l, ok)
    \/ \E l \in Loops : TimerFires(l)

\* The loops whose effect has been cleaned up.
CleanedUp == {l \in Loops : pollLoops[l].pc /= "none" /\ ~pollLoops[l].alive}

\* C27: a polling loop whose effect has been cleaned up stops: it issues no
\* further dashboard fetch and sets no further timer, also when the cleanup ran
\* while its fetch was in flight.
C27_CleanedUpLoopStops ==
    [][\A l \in CleanedUp :
          /\ pollLoops'[l].issued = pollLoops[l].issued
          /\ l \in pollTimers'.pending => l \in pollTimers.pending]_vars

-----------------------------------------------------------------------------
(***************************************************************************)
(* Tool calls of the UI (fetchToolCalls, computeToolCallsFetchPlan)        *)
(*                                                                         *)
(* A response is named by the seq of its request; data = 0 is null.  The   *)
(* field `by` of an entry is the seq of the request that wrote it last (it *)
(* is not in the code).  A session without an entry has state "none".      *)
(***************************************************************************)

\* Bound of the tool calls model: the requests issued per session.
MaxSeq == 3

UiSessions == {"ses_a", "ses_b"}

UiStatuses == {"running", " Running ", "completed"}

\* String(status ?? "").toLowerCase().trim()
statusNormalized(status) == IF status = " Running " THEN "running" ELSE status

NoToolCalls == [state |-> "none", data |-> 0, lastFetchedAtMs |-> 0, by |-> 0]

computeToolCallsFetchPlan(sessionId, status, cachedState, cachedDataOk, isExpanded) ==
    IF sessionId = "" THEN [shouldFetch |-> FALSE, force |-> FALSE]
    ELSE IF ~isExpanded THEN [shouldFetch |-> FALSE, force |-> FALSE]
    ELSE IF statusNormalized(status) = "running" THEN [shouldFetch |-> TRUE, force |-> TRUE]
    ELSE IF cachedDataOk THEN [shouldFetch |-> FALSE, force |-> FALSE]
    ELSE IF cachedState = "loading" THEN [shouldFetch |-> FALSE, force |-> FALSE]
    ELSE [shouldFetch |-> TRUE, force |-> FALSE]

\* The entry set when a request is issued.
loadingEntry(prior, seq) ==
    [state |-> "loading", data |-> prior.data, lastFetchedAtMs |-> prior.lastFetchedAtMs,
     by |-> seq]

\* The entry after the request with `seq` settled, `current` being the seq in
\* toolCallsSeqRef: left alone when the request was superseded.
\* (settledEntryUnchecked: without the comparison of seq.)
settledEntryUnchecked(prior, current, seq, ok) ==
    IF ok THEN [state |-> "ok", data |-> seq, lastFetchedAtMs |-> seq, by |-> seq]
    ELSE [state |-> "error", data |-> prior.data,
          lastFetchedAtMs |-> prior.lastFetchedAtMs, by |-> seq]
settledEntry(prior, current, seq, ok) ==
    IF current /= seq THEN prior
    ELSE IF ok THEN [state |-> "ok", data |-> seq, lastFetchedAtMs |-> seq, by |-> seq]
    ELSE [state |-> "error", data |-> prior.data,
          lastFetchedAtMs |-> prior.lastFetchedAtMs, by |-> seq]

IdleFetch ==
    /\ uiToolCalls = [bySession |-> [s \in UiSessions |-> NoToolCalls],
                      ref |-> [s \in UiSessions |-> NoToolCalls],
                      seqRef |-> [s \in UiSessions |-> 0]]
    /\ uiRequests = {}

\* fetchToolCalls up to its await: nothing when not forced and the cached data
\* are ok; else the next seq, the entry loading, the request in flight.
fetchToolCalls(sessionId, force) ==
    IF ~force /\ uiToolCalls.ref[sessionId].data /= 0
       THEN UNCHANGED <<uiToolCalls, uiRequests>>
       ELSE /\ uiToolCalls' =
                 [uiToolCalls EXCEPT
                     !.seqRef[sessionId] = uiToolCalls.seqRef[sessionId] + 1,
                     !.bySession[sessionId] =
                         loadingEntry(uiToolCalls.bySession[sessionId],
                                      uiToolCalls.seqRef[sessionId] + 1)]
            /\ uiRequests' = uiRequests \cup
                 {[sessionId |-> sessionId, seq |-> uiToolCalls.seqRef[sessionId] + 1]}

\* The effect over the tasks of the payload, and the toggles of a task: the plan
\* from the cached entry in toolCallsBySessionRef, then fetchToolCalls.
PlanAndFetch(sessionId, status, isExpanded) ==
    /\ uiToolCalls.seqRef[sessionId] < MaxSeq
    /\ computeToolCallsFetchPlan(sessionId, status,
           uiToolCalls.ref[sessionId].state,
           uiToolCalls.ref[sessionId].data /= 0, isExpanded).shouldFetch
    /\ fetchToolCalls(sessionId,
           computeToolCallsFetchPlan(sessionId, status,
               uiToolCalls.ref[sessionId].state,
               uiToolCalls.ref[sessionId].data /= 0, isExpanded).force)
    /\ uiToolCalls' /= uiToolCalls
    /\ UNCHANGED notFetch

\* The effect that copies the rendered state into toolCallsBySessionRef.
SyncRef ==
    /\ uiToolCalls.ref /= uiToolCalls.bySession
    /\ uiToolCalls' = [uiToolCalls EXCEPT !.ref = uiToolCalls.bySession]
    /\ UNCHANGED <<uiRequests>>
    /\ UNCHANGED notFetch

\* fetchToolCalls after its await: the response is ok, or the fetch failed or
\* the response is not ok.
RequestSettles(r, ok) ==
    /\ r \in uiRequests
    /\ uiRequests' = uiRequests \ {r}
    /\ uiToolCalls' =
          [uiToolCalls EXCEPT !.bySession[r.sessionId] =
              settledEntry(uiToolCalls.bySession[r.sessionId],
                           uiToolCalls.seqRef[r.sessionId], r.seq, ok)]
    /\ UNCHANGED notFetch

NextFetch ==
    \/ \E s \in UiSessions, st \in UiStatuses, e \in BOOLEAN : PlanAndFetch(s, st, e)
    \/ SyncRef
    \/ \E s \in UiSessions, q \in 1..MaxSeq, ok \in BOOLEAN :
          RequestSettles([sessionId |-> s, seq |-> q], ok)

\* The latest request of the session is in flight.
LatestInFlight(s) == [sessionId |-> s, seq |-> uiToolCalls.seqRef[s]] \in uiRequests

\* C28: per session, the entry is written only by the most recently issued
\* request, whatever the order in which overlapping requests settle, and once
\* that request has settled the entry is not loading.
C28_OnlyLatestWrites ==
    \A s \in UiSessions :
        /\ uiToolCalls.bySession[s].by = uiToolCalls.seqRef[s]
        /\ uiToolCalls.bySession[s].state = "loading" => LatestInFlight(s)
        /\ uiToolCalls.seqRef[s] > 0 /\ ~LatestInFlight(s) =>
               uiToolCalls.bySession[s].state \in {"ok", "error"}

\* C28's case: the latest of three overlapping requests has settled and written
\* the entry while a superseded one is still in flight, and another superseded one
\* has settled.
C28_Witness ==
    \E s \in UiSessions :
        /\ uiToolCalls.seqRef[s] = 3
        /\ uiToolCalls.bySession[s].state = "ok"
        /\ uiToolCalls.bySession[s].by = 3
        /\ [sessionId |-> s, seq |-> 1] \in uiRequests
        /\ [sessionId |-> s, seq |-> 2] \notin uiRequests

-----------------------------------------------------------------------------
(***************************************************************************)
(* Specifications                                                          *)
(***************************************************************************)

\* The state createDashboardStore leaves.
InitStore == IdleStore /\ IdleServer /\ IdleTasks /\ IdlePayload /\ IdleUsage
    /\ IdleToolCalls /\ IdleRegistry /\ IdleDing /\ IdleTimeSeries /\ IdlePolling
    /\ IdleFetch

SpecStore == InitStore /\ [][NextStore]_vars

\* The state start.ts leaves, with any --project path.
InitServer == ServerStarted /\ IdleStore /\ IdleTasks /\ IdlePayload /\ IdleUsage
    /\ IdleToolCalls /\ IdleRegistry /\ IdleDing /\ IdleTimeSeries /\ IdlePolling
    /\ IdleFetch

SpecServer == InitServer /\ [][NextServer]_vars

\* One call of deriveBackgroundTasks on any of the artifact trees.
InitTasks == TasksGiven /\ IdleStore /\ IdleServer /\ IdlePayload /\ IdleUsage
    /\ IdleToolCalls /\ IdleRegistry /\ IdleDing /\ IdleTimeSeries /\ IdlePolling
    /\ IdleFetch

SpecTasks == InitTasks /\ [][NextTasks]_vars

\* One call of buildDashboardPayload on any of the inputs.
InitPayload == PayloadGiven /\ IdleStore /\ IdleServer /\ IdleTasks /\ IdleUsage
    /\ IdleToolCalls /\ IdleRegistry /\ IdleDing /\ IdleTimeSeries /\ IdlePolling
    /\ IdleFetch

SpecPayload == InitPayload /\ [][NextPayload]_vars

\* One call of deriveTokenUsage on any of the message files.
InitUsage == UsageGiven /\ IdleStore /\ IdleServer /\ IdleTasks /\ IdlePayload
    /\ IdleToolCalls /\ IdleRegistry /\ IdleDing /\ IdleTimeSeries /\ IdlePolling
    /\ IdleFetch

SpecUsage == InitUsage /\ [][NextUsage]_vars

\* One request of GET /tool-calls/:sessionId with any id and message directory.
InitToolCalls == ToolCallsGiven /\ IdleStore /\ IdleServer /\ IdleTasks /\ IdlePayload
    /\ IdleUsage /\ IdleRegistry /\ IdleDing /\ IdleTimeSeries /\ IdlePolling
    /\ IdleFetch

SpecToolCalls == InitToolCalls /\ [][NextToolCalls]_vars

\* Processes calling addOrUpdateSource on an empty registry.
InitRegistry == IdleRegistry /\ IdleStore /\ IdleServer /\ IdleTasks /\ IdlePayload
    /\ IdleUsage /\ IdleToolCalls /\ IdleDing /\ IdleTimeSeries /\ IdlePolling
    /\ IdleFetch

SpecRegistry == InitRegistry /\ [][NextRegistry]_vars

\* Observations fed to computeWaitingDing from the App's first state.
InitDing == IdleDing /\ IdleStore /\ IdleServer /\ IdleTasks /\ IdlePayload /\ IdleUsage
    /\ IdleToolCalls /\ IdleRegistry /\ IdleTimeSeries /\ IdlePolling /\ IdleFetch

SpecDing == InitDing /\ [][NextDing]_vars

\* One payload's timeSeries normalised by the UI.
InitTimeSeries == TimeSeriesGiven /\ IdleStore /\ IdleServer /\ IdleTasks /\ IdlePayload
    /\ IdleUsage /\ IdleToolCalls /\ IdleRegistry /\ IdleDing /\ IdlePolling
    /\ IdleFetch

SpecTimeSeries == InitTimeSeries /\ [][NextTimeSeries]_vars

\* The polling effect of the UI over mounts, changes of the selected source and an unmount.
InitPolling == IdlePolling /\ IdleStore /\ IdleServer /\ IdleTasks /\ IdlePayload
    /\ IdleUsage /\ IdleToolCalls /\ IdleRegistry /\ IdleDing /\ IdleTimeSeries
    /\ IdleFetch

SpecPolling == InitPolling /\ [][NextPolling]_vars

\* The tool call entries of the UI over overlapping fetchToolCalls requests.
InitFetch == IdleFetch /\ IdleStore /\ IdleServer /\ IdleTasks /\ IdlePayload
    /\ IdleUsage /\ IdleToolCalls /\ IdleRegistry /\ IdleDing /\ IdleTimeSeries
    /\ IdlePolling

SpecFetch == InitFetch /\ [][NextFetch]_vars

====
